---------------------------- MODULE Spec2Model ----------------------------
(***************************************************************************)
(* Model of the FADA pipeline's table-extraction and consolidation engine  *)
(* (src/transformer/build_master_excel.py).                                *)
(*                                                                         *)
(* Python str values are TLA+ strings; a character is a string of length   *)
(* one.  A spreadsheet cell is a tagged record (Str, Int, Float, Inf, NaN) *)
(* because a DataFrame read with header=None holds str, int, float and NaN *)
(* cells side by side.  A float is held in tenths (127 is 12.7).           *)
(***************************************************************************)
EXTENDS Integers, Sequences, FiniteSets, TLC

VARIABLES
    op,              \* position of the pure-function harness: call, done or idle
    arg,             \* argument the harness passes to the function under check
    ret,             \* what the function returned
    pc,              \* position in build_consolidated_master
    listing,         \* excel_dir.glob: the files of the directory, in listing order
    period,          \* the months and years arguments
    excel_files,     \* the files selected for processing
    sorted_files,    \* sorted(excel_files), the sequence the loop walks
    file_idx,        \* number of the file being processed (1-based)
    sheet_idx,       \* number of the sheet being processed (1-based)
    all_data,        \* table_type -> row_label -> timepoint -> value
    all_timepoints,  \* set of the timepoints written
    sorted_timepoints,
    result,          \* the return value: no data, or the artifact's file name
    artifact,        \* the workbook wb.save wrote: file name, rows, column widths
    contributions,   \* history: what each merged sheet contributed, in order
    worksheet,       \* the cloud worksheet: (row, column) -> value of the cells that hold one
    synced,          \* history: the last sync_data call, its input, writes and result
    runners,         \* the PipelineRunner threads: position, selection, session id, messages put
    active_sessions, \* app.active_sessions: session id -> the file stored for it
    output_dir,      \* OUTPUT_DIR: file name -> the dataset saved under that name
    cache            \* ProcessingCache.cache['files']: file name -> the flags set on it

fnVars == <<op, arg, ret>>
runVars == <<pc, listing, period, excel_files, sorted_files, file_idx, sheet_idx,
             all_data, all_timepoints, sorted_timepoints, result, artifact,
             contributions>>
sheetVars == <<worksheet, synced>>
appVars == <<runners, active_sessions, output_dir, cache>>
vars == <<op, arg, ret, pc, listing, period, excel_files, sorted_files, file_idx,
          sheet_idx, all_data, all_timepoints, sorted_timepoints, result, artifact,
          contributions, worksheet, synced, runners, active_sessions, output_dir, cache>>

(***************************************************************************)
(* Characters and str methods.                                             *)
(***************************************************************************)
Digits == "0123456789"
UpperCase == "ABCDEFGHIJKLMNOPQRSTUVWXYZ"
LowerCase == "abcdefghijklmnopqrstuvwxyz"

\* Code points 32..95 and 97..122 in order (the backquote, 96, is not used).
AsciiLow == " !\"#$%&'()*+,-./0123456789:;<=>?@ABCDEFGHIJKLMNOPQRSTUVWXYZ[\\]^_"
AsciiHigh == "abcdefghijklmnopqrstuvwxyz{|}~"

Char(s, i) == SubSeq(s, i, i)

IndexIn(c, table) ==
    IF \E i \in 1..Len(table) : Char(table, i) = c
    THEN CHOOSE i \in 1..Len(table) : Char(table, i) = c
    ELSE 0

\* the character classes \d, [A-Z] and \s
DigitClass == {Char(Digits, i) : i \in 1..Len(Digits)}
UpperClass == {Char(UpperCase, i) : i \in 1..Len(UpperCase)}
LowerClass == {Char(LowerCase, i) : i \in 1..Len(LowerCase)}
SpaceClass == {" ", "\t", "\n", "\r", "\f"}

IsDigit(c) == c \in DigitClass
IsSpace(c) == c \in SpaceClass

\* int(c) of a digit
DigitValue == [c \in DigitClass |-> IndexIn(c, Digits) - 1]

\* ord(c)
CharCode(c) ==
    IF c = "\t" THEN 9
    ELSE IF c = "\n" THEN 10
    ELSE IF IndexIn(c, AsciiLow) > 0 THEN 31 + IndexIn(c, AsciiLow)
    ELSE 96 + IndexIn(c, AsciiHigh)

UpperOf == [c \in LowerClass |-> Char(UpperCase, IndexIn(c, LowerCase))]
LowerOf == [c \in UpperClass |-> Char(LowerCase, IndexIn(c, UpperCase))]

UpperChar(c) == IF c \in LowerClass THEN UpperOf[c] ELSE c
LowerChar(c) == IF c \in UpperClass THEN LowerOf[c] ELSE c

RECURSIVE MapChars(_, _)
MapChars(s, up) ==
    IF Len(s) = 0 THEN ""
    ELSE (IF up THEN UpperChar(Char(s, 1)) ELSE LowerChar(Char(s, 1)))
         \o MapChars(SubSeq(s, 2, Len(s)), up)

Upper(s) == MapChars(s, TRUE)
Lower(s) == MapChars(s, FALSE)

RECURSIVE LStrip(_)
LStrip(s) ==
    IF Len(s) > 0 /\ IsSpace(Char(s, 1)) THEN LStrip(SubSeq(s, 2, Len(s))) ELSE s

RECURSIVE RStrip(_)
RStrip(s) ==
    IF Len(s) > 0 /\ IsSpace(Char(s, Len(s))) THEN RStrip(SubSeq(s, 1, Len(s) - 1)) ELSE s

Strip(s) == RStrip(LStrip(s))

StartsWith(s, p) == Len(p) <= Len(s) /\ SubSeq(s, 1, Len(p)) = p

\* the substring test (p in s) of Python
Contains(s, p) == \E i \in 0..(Len(s) - Len(p)) : SubSeq(s, i + 1, i + Len(p)) = p

\* int() of a string of decimal digits
RECURSIVE ParseDigits(_)
ParseDigits(s) ==
    IF Len(s) = 0 THEN 0
    ELSE 10 * ParseDigits(SubSeq(s, 1, Len(s) - 1)) + DigitValue[Char(s, Len(s))]

AllDigits(s) == \A i \in 1..Len(s) : IsDigit(Char(s, i))

\* str() of a non-negative int
RECURSIVE NatToStr(_)
NatToStr(n) ==
    IF n < 10 THEN Char(Digits, n + 1)
    ELSE NatToStr(n \div 10) \o Char(Digits, (n % 10) + 1)

IntToStr(n) == IF n < 0 THEN "-" \o NatToStr(-n) ELSE NatToStr(n)

(***************************************************************************)
(* Cells and optional integers.                                            *)
(***************************************************************************)
Str(s)      == [t |-> "str",   s |-> s,  n |-> 0]
IntCell(n)  == [t |-> "int",   s |-> "", n |-> n]
FloatCell(tenths) == [t |-> "float", s |-> "", n |-> tenths]
InfCell(sign) == [t |-> "inf", s |-> "", n |-> sign]
NaN         == [t |-> "nan",   s |-> "", n |-> 0]

Some(n) == [k |-> "int",   v |-> n]
None    == [k |-> "none",  v |-> 0]
Raised  == [k |-> "raise", v |-> 0]

\* pd.isna(val) for a scalar cell
IsNa(cell) == cell.t = "nan"

\* the float rounded down instead of truncated toward zero
FloorTenths(n) == n \div 10

\* int(val) of a finite float held in tenths: truncation toward zero
TruncTenths(n) == IF n >= 0 THEN n \div 10 ELSE -((-n) \div 10)

\* re.sub(r'[,\s]', '', s)
RECURSIVE RemoveSeparators(_)
RemoveSeparators(s) ==
    IF Len(s) = 0 THEN ""
    ELSE (IF Char(s, 1) = "," \/ IsSpace(Char(s, 1)) THEN "" ELSE Char(s, 1))
         \o RemoveSeparators(SubSeq(s, 2, Len(s)))

\* re.match(r'^-?\d+$', s)
MatchesSignedDigits(s) ==
    LET body == IF StartsWith(s, "-") THEN SubSeq(s, 2, Len(s)) ELSE s
    IN  Len(body) >= 1 /\ AllDigits(body)

\* int(s) for a string accepted by MatchesSignedDigits
ParseSignedDigits(s) ==
    IF StartsWith(s, "-") THEN -ParseDigits(SubSeq(s, 2, Len(s))) ELSE ParseDigits(s)

clean_value(val) ==
    IF IsNa(val) THEN None
    ELSE IF val.t = "int" THEN Some(val.n)
    ELSE IF val.t = "float" THEN Some(TruncTenths(val.n))
    ELSE IF val.t = "inf" THEN Raised        \* int(float('inf')) raises OverflowError
    ELSE LET val_clean == RemoveSeparators(Strip(val.s))
         IN  IF MatchesSignedDigits(val_clean)
             THEN Some(ParseSignedDigits(val_clean))
             ELSE None

\* str(x) of a cell value
CellToStr(cell) ==
    IF cell.t = "str" THEN cell.s
    ELSE IF cell.t = "int" THEN IntToStr(cell.n)
    ELSE IF cell.t = "float"
         THEN LET a == IF cell.n < 0 THEN -cell.n ELSE cell.n
              IN  (IF cell.n < 0 THEN "-" ELSE "") \o NatToStr(a \div 10) \o "." \o NatToStr(a % 10)
    ELSE IF cell.t = "inf" THEN (IF cell.n < 0 THEN "-inf" ELSE "inf")
    ELSE "nan"

\* normalize_name: strip, collapse every run of whitespace to one space, upper-case
RECURSIVE CollapseSpaces(_)
CollapseSpaces(s) ==
    IF Len(s) = 0 THEN ""
    ELSE IF IsSpace(Char(s, 1))
         THEN " " \o CollapseSpaces(LStrip(s))
         ELSE Char(s, 1) \o CollapseSpaces(SubSeq(s, 2, Len(s)))

normalize_name(name) ==
    IF IsNa(name) THEN ""
    ELSE Upper(CollapseSpaces(Strip(CellToStr(name))))

(***************************************************************************)
(* Timepoint parser.                                                       *)
(***************************************************************************)
\* the skip list of extract_timepoints_from_header
SkipKeywords == {"%", "YOY", "MOM", "GROWTH", "MARKET SHARE", "OEM", "NAME", "CATEGORY", "TOTAL"}

MonthAbbrs == <<"JAN", "FEB", "MAR", "APR", "MAY", "JUN", "JUL", "AUG", "SEP", "OCT", "NOV", "DEC">>

IsMonthAbbr(w) == \E m \in 1..Len(MonthAbbrs) : MonthAbbrs[m] = w

\* first index >= j whose character fails P (Len(s) + 1 when none): the end of
\* a greedy run of a character class
SkipWhile(s, j, class) ==
    CHOOSE k \in j..(Len(s) + 1) :
        /\ \A m \in j..(k - 1) : Char(s, m) \in class
        /\ (k = Len(s) + 1 \/ Char(s, k) \notin class)

\* the character classes [\s'] and ['\s\-]
FySepClass == SpaceClass \cup {"'"}
MonthSepClass == SpaceClass \cup {"'", "-"}

\* the group (\d{2,4}) starting at index j: two to four digits, greedy; the
\* empty string when fewer than two digits stand there
DigitGroup(s, j) ==
    LET e == SkipWhile(s, j, DigitClass)
        n == IF e - j > 4 THEN 4 ELSE e - j
    IN  IF n >= 2 THEN SubSeq(s, j, j + n - 1) ELSE ""

\* FY[\s']*(\d{2,4}) anchored at index i: the year group, or the empty string
FyMatchAt(s, i) ==
    IF i + 1 <= Len(s) /\ SubSeq(s, i, i + 1) = "FY"
    THEN DigitGroup(s, SkipWhile(s, i + 2, FySepClass))
    ELSE ""

\* (JAN|...|DEC)[A-Z]*['\s\-]*(\d{2,4}) anchored at index i
MonthMatchAt(s, i) ==
    IF i + 2 <= Len(s) /\ IsMonthAbbr(SubSeq(s, i, i + 2))
    THEN DigitGroup(s, SkipWhile(s, SkipWhile(s, i + 3, UpperClass), MonthSepClass))
    ELSE ""

\* re.search: the leftmost index at which the pattern matches, 0 when none
Leftmost(hits) == IF hits = {} THEN 0 ELSE CHOOSE i \in hits : \A h \in hits : i <= h

FySearch(s) == Leftmost({i \in 1..Len(s) : FyMatchAt(s, i) # ""})
MonthSearch(s) == Leftmost({i \in 1..Len(s) : MonthMatchAt(s, i) # ""})

\* the century kept instead of the year: year[:2]
YearPrefix(year) == IF Len(year) = 4 THEN SubSeq(year, 1, 2) ELSE year

\* year = year[2:] when four digits were matched
YearSuffix(year) == IF Len(year) = 4 THEN SubSeq(year, 3, 4) ELSE year

\* The label one header cell yields, the empty string when it yields none
CellTimepoint(cell_value) ==
    IF IsNa(cell_value) THEN ""
    ELSE LET cell_str == Strip(Upper(CellToStr(cell_value)))
             fy == FySearch(cell_str)
             mo == MonthSearch(cell_str)
         IN  IF \E skip \in SkipKeywords : Contains(cell_str, skip) THEN ""
             ELSE IF fy > 0 THEN "FY'" \o YearSuffix(FyMatchAt(cell_str, fy))
             ELSE IF mo > 0
                  THEN SubSeq(cell_str, mo, mo + 2) \o "'" \o YearSuffix(MonthMatchAt(cell_str, mo))
             ELSE ""

EmptyDict == [x \in {} |-> 0]

\* the value of a key already present kept
DictSetIfAbsent(d, k, v) == [x \in (DOMAIN d) \cup {k} |-> IF x \in DOMAIN d THEN d[x] ELSE v]

\* d[k] = v on a dict held as a function
DictSet(d, k, v) == [x \in (DOMAIN d) \cup {k} |-> IF x = k THEN v ELSE d[x]]

\* dict of label -> column index (0-based) after the first n header cells
RECURSIVE TimepointsUpTo(_, _)
TimepointsUpTo(header_row, n) ==
    IF n = 0 THEN EmptyDict
    ELSE LET before == TimepointsUpTo(header_row, n - 1)
             timepoint == CellTimepoint(header_row[n])
         IN  IF timepoint = "" THEN before ELSE DictSet(before, timepoint, n - 1)

extract_timepoints_from_header(header_row) == TimepointsUpTo(header_row, Len(header_row))

(***************************************************************************)
(* Timepoint ordering.                                                     *)
(***************************************************************************)
\* re.sub(r'\D', '', tp)
RECURSIVE KeepDigits(_)
KeepDigits(s) ==
    IF Len(s) = 0 THEN ""
    ELSE (IF IsDigit(Char(s, 1)) THEN Char(s, 1) ELSE "") \o KeepDigits(SubSeq(s, 2, Len(s)))

fy_sort(tp) == <<ParseDigits(KeepDigits(tp))>>

\* the key with month and year swapped: (dt.month, dt.year)
month_sort_month_first(tp) ==
    IF Len(tp) = 6 /\ IsMonthAbbr(Upper(SubSeq(tp, 1, 3))) /\ AllDigits(SubSeq(tp, 5, 6))
    THEN <<CHOOSE m \in 1..Len(MonthAbbrs) : MonthAbbrs[m] = Upper(SubSeq(tp, 1, 3)),
           ParseDigits(SubSeq(tp, 5, 6))>>
    ELSE <<12, 9999>>

\* datetime.strptime(tp, %b'%y): month name in any case, apostrophe, exactly
\* two digits, nothing else (%y reads 00..68 as 20yy and 69..99 as 19yy);
\* (9999, 12) when the parse raises
month_sort(tp) ==
    IF /\ Len(tp) = 6
       /\ IsMonthAbbr(Upper(SubSeq(tp, 1, 3)))
       /\ Char(tp, 4) = "'"
       /\ AllDigits(SubSeq(tp, 5, 6))
    THEN LET yy == ParseDigits(SubSeq(tp, 5, 6))
             mm == CHOOSE m \in 1..Len(MonthAbbrs) : MonthAbbrs[m] = Upper(SubSeq(tp, 1, 3))
         IN  <<(IF yy < 69 THEN 2000 + yy ELSE 1900 + yy), mm>>
    ELSE <<9999, 12>>

\* a < b for two keys of the same length (tuple comparison)
RECURSIVE KeyLess(_, _)
KeyLess(a, b) ==
    IF Len(a) = 0 THEN FALSE
    ELSE IF a[1] # b[1] THEN a[1] < b[1]
    ELSE KeyLess(Tail(a), Tail(b))

\* a stable sort of <<key, item>> pairs: the last pair goes after every pair
\* whose key is not greater than its own
RECURSIVE SortPairs(_)
SortPairs(pairs) ==
    IF Len(pairs) = 0 THEN << >>
    ELSE LET x == pairs[Len(pairs)]
             front == SortPairs(SubSeq(pairs, 1, Len(pairs) - 1))
             pos == Cardinality({i \in 1..Len(front) : ~KeyLess(x[1], front[i][1])})
         IN  SubSeq(front, 1, pos) \o <<x>> \o SubSeq(front, pos + 1, Len(front))

RECURSIVE Items(_)
Items(pairs) == IF Len(pairs) = 0 THEN << >> ELSE <<pairs[1][2]>> \o Items(Tail(pairs))

\* sorted(pairs of <<key, item>>), the items alone
SortedBy(pairs) == Items(SortPairs(pairs))

IsFyLabel(tp) == StartsWith(tp, "FY")
IsNotFyLabel(tp) == ~StartsWith(tp, "FY")

\* timepoints is the set in the order its iteration yields it
sort_timepoints_columns(timepoints) ==
    LET fys == SelectSeq(timepoints, IsFyLabel)
        months == SelectSeq(timepoints, IsNotFyLabel)
    IN  SortedBy([i \in 1..Len(fys) |-> <<fy_sort(fys[i]), fys[i]>>])
        \o SortedBy([i \in 1..Len(months) |-> <<month_sort(months[i]), months[i]>>])

\* the orders in which iterating a set can yield its elements
RECURSIVE Orders(_)
Orders(S) ==
    IF S = {} THEN {<< >>}
    ELSE UNION {{<<x>> \o q : q \in Orders(S \ {x})} : x \in S}

(***************************************************************************)
(* Table classifier.  A DataFrame is a sequence of rows, a row a sequence  *)
(* of cells; row and column numbers of the code are 0-based, sequence      *)
(* indices 1-based.                                                        *)
(***************************************************************************)
TABLE_PATTERNS ==
    << [type |-> "Two Wheeler (2W)", patterns |-> <<"two wheeler oem", "two-wheeler oem", "2w oem">>],
       [type |-> "Two-Wheeler EV OEM", patterns |-> <<"two wheeler ev", "two-wheeler ev", "electric two-wheeler", "2w ev">>],
       [type |-> "Three Wheeler (3W)", patterns |-> <<"three wheeler oem", "three-wheeler oem", "3w oem">>],
       [type |-> "Three-Wheeler EV OEM", patterns |-> <<"three wheeler ev", "three-wheeler ev", "electric three-wheeler", "3w ev">>],
       [type |-> "Passenger Vehicle (PV)", patterns |-> <<"passenger vehicle oem", "pv oem", "passenger car">>],
       [type |-> "PV EV OEM", patterns |-> <<"pv ev", "passenger vehicle ev", "electric passenger">>],
       [type |-> "Tractor (TRAC)", patterns |-> <<"tractor oem", "tractor">>],
       [type |-> "Commercial Vehicle (CV)", patterns |-> <<"commercial vehicle oem", "cv oem">>],
       [type |-> "Commercial Vehicle EV OEM", patterns |-> <<"commercial vehicle ev", "cv ev", "electric commercial">>],
       [type |-> "Construction Equipment", patterns |-> <<"construction equipment", "ce oem">>],
       [type |-> "Retail Data Summary", patterns |-> <<"category", "retail data">>],
       [type |-> "Inventory Days", patterns |-> <<"inventory days", "inventory">>],
       [type |-> "Retail Strength Urban", patterns |-> <<"retail strength", "urban rto">>],
       [type |-> "Retail Strength Rural", patterns |-> <<"retail strength", "rural rto">>],
       [type |-> "Road Tax Collection", patterns |-> <<"road tax", "motor vehicle road tax">>],
       [type |-> "EV Penetration", patterns |-> <<"ev penetration", "electric vehicle penetration">>],
       [type |-> "Fuel Wise Market Share", patterns |-> <<"fuel wise", "fuel type", "market share">>],
       [type |-> "3W Subcategories", patterns |-> <<"three-wheeler (passenger)", "three-wheeler (goods)", "e-rickshaw">>] >>

\* the table type None (no type is the empty string, and (not table_type)
\* holds of it alone)
NoType == ""

\* ' '.join(str(x).lower() for x in row.fillna('')), cells 1..n
RECURSIVE RowText(_, _)
RowText(row, n) ==
    IF n = 0 THEN ""
    ELSE LET cell == IF IsNa(row[n]) THEN "" ELSE Lower(CellToStr(row[n]))
         IN  IF n = 1 THEN cell ELSE RowText(row, n - 1) \o " " \o cell

\* search_text after the first n rows
RECURSIVE SearchText(_, _, _)
SearchText(df, sheet_name, n) ==
    IF n = 0 THEN Lower(sheet_name)
    ELSE SearchText(df, sheet_name, n - 1) \o " " \o RowText(df[n], Len(df[n]))

Min(a, b) == IF a <= b THEN a ELSE b

\* the type of the last entry with a pattern in the text, instead of the first
RECURSIVE LastMatchFrom(_, _)
LastMatchFrom(search_text, k) ==
    IF k > Len(TABLE_PATTERNS) THEN NoType
    ELSE LET later == LastMatchFrom(search_text, k + 1)
         IN  IF later # NoType THEN later
             ELSE IF \E i \in 1..Len(TABLE_PATTERNS[k].patterns) :
                         Contains(search_text, TABLE_PATTERNS[k].patterns[i])
                  THEN TABLE_PATTERNS[k].type
                  ELSE NoType

\* the loop over TABLE_PATTERNS.items() from entry k on: the type of the first
\* entry one of whose patterns is in the text
RECURSIVE FirstMatchFrom(_, _)
FirstMatchFrom(search_text, k) ==
    IF k > Len(TABLE_PATTERNS) THEN NoType
    ELSE IF \E i \in 1..Len(TABLE_PATTERNS[k].patterns) :
                Contains(search_text, TABLE_PATTERNS[k].patterns[i])
         THEN TABLE_PATTERNS[k].type
         ELSE FirstMatchFrom(search_text, k + 1)

identify_table_type(df, sheet_name) ==
    FirstMatchFrom(SearchText(df, sheet_name, Min(5, Len(df))), 1)

(***************************************************************************)
(* Table extractor.                                                        *)
(***************************************************************************)
\* first row number (1-based) among the first ten whose header parse is not
\* empty, 0 for None
RECURSIVE HeaderRowFrom(_, _)
HeaderRowFrom(df, i) ==
    IF i > Min(10, Len(df)) THEN 0
    ELSE IF DOMAIN extract_timepoints_from_header(df[i]) # {} THEN i
    ELSE HeaderRowFrom(df, i + 1)

find_header_row(df) == HeaderRowFrom(df, 1)

HeaderLikeKeywords == {"OEM NAME", "CATEGORY", "SR NO", "S.NO"}

\* the test for a leading space alone
IsIndentedBySpace(label_str) == StartsWith(label_str, " ")

\* label_str.startswith(' ') or label_str.startswith('\t')
IsIndented(label_str) == StartsWith(label_str, " ") \/ StartsWith(label_str, "\t")

\* re.match(r'^\d+\.?\s', label_str.strip())
IsNumbered(label_str) ==
    LET t == Strip(label_str)
        e == SkipWhile(t, 1, DigitClass)
    IN  /\ e > 1
        /\ \/ e <= Len(t) /\ IsSpace(Char(t, e))
           \/ e + 1 <= Len(t) /\ Char(t, e) = "." /\ IsSpace(Char(t, e + 1))

\* the rows the loop passes over with continue before reading any value
RowSkipped(row) ==
    LET label_raw == row[1]
        label_str == CellToStr(label_raw)
        label == normalize_name(label_raw)
    IN  \/ IsNa(label_raw)
        \/ label \in {"", "NAN", "NONE"}
        \/ \E skip \in HeaderLikeKeywords : Contains(label, skip)
        \/ IsIndented(label_str)
        \/ IsNumbered(label_str)

\* the timepoints whose column lies in the row
ColumnsInRow(row, timepoints) == {tp \in DOMAIN timepoints : timepoints[tp] < Len(row)}

RowRaises(row, timepoints) ==
    \E tp \in ColumnsInRow(row, timepoints) : clean_value(row[timepoints[tp] + 1]).k = "raise"

\* every cell in a timepoint column stored, 0 standing for the absent ones
RowDataZeroFill(row, timepoints) ==
    LET cleaned == [tp \in ColumnsInRow(row, timepoints) |-> clean_value(row[timepoints[tp] + 1])]
    IN  [tp \in DOMAIN cleaned |-> IF cleaned[tp].k = "int" THEN cleaned[tp].v ELSE 0]

\* row_data: the timepoints whose cell cleans to an integer, with that integer
RowData(row, timepoints) ==
    LET cleaned == [tp \in ColumnsInRow(row, timepoints) |-> clean_value(row[timepoints[tp] + 1])]
    IN  [tp \in {x \in DOMAIN cleaned : cleaned[x].k = "int"} |-> cleaned[tp].v]

\* data after the rows up to row number n (1-based), header_row being the
\* header's row number; raised once clean_value has raised in one of them
RECURSIVE ExtractRows(_, _, _, _)
ExtractRows(df, timepoints, header_row, n) ==
    IF n <= header_row THEN [raised |-> FALSE, data |-> EmptyDict]
    ELSE LET before == ExtractRows(df, timepoints, header_row, n - 1)
             row == df[n]
             row_data == RowData(row, timepoints)
         IN  IF before.raised \/ RowSkipped(row) THEN before
             ELSE IF RowRaises(row, timepoints) THEN [raised |-> TRUE, data |-> EmptyDict]
             ELSE IF DOMAIN row_data = {} THEN before
             ELSE [raised |-> FALSE,
                   data |-> DictSet(before.data, Strip(CellToStr(row[1])), row_data)]

\* (table_type, data), or raised when a cell made clean_value raise
extract_table_data(df) ==
    LET header_row == find_header_row(df)
        timepoints == extract_timepoints_from_header(df[header_row])
        rows == ExtractRows(df, timepoints, header_row, Len(df))
    IN  IF header_row = 0
        THEN [raised |-> FALSE, table_type |-> NoType, data |-> EmptyDict]
        ELSE [raised |-> rows.raised,
              table_type |-> IF rows.raised THEN NoType ELSE identify_table_type(df, ""),
              data |-> rows.data]

(***************************************************************************)
(* Consolidation: build_consolidated_master.                               *)
(***************************************************************************)
NoPeriod == [given |-> FALSE, months |-> << >>, years |-> << >>]
NoResult == [kind |-> "pending", name |-> ""]
NoData == [kind |-> "none", name |-> ""]
NoArtifact == [name |-> "", rows |-> << >>, widths |-> << >>]

\* the worksheet connect creates, and no call of sync_data yet
NoSync == [calls |-> 0, connected |-> FALSE, before |-> EmptyDict, data |-> EmptyDict,
           timepoints |-> << >>, written |-> {}, ret |-> FALSE]
SheetIdle == worksheet = EmptyDict /\ synced = NoSync

\* no request served, nothing saved, an empty cache
AppIdle ==
    /\ runners = << >>
    /\ active_sessions = EmptyDict
    /\ output_dir = EmptyDict
    /\ cache = EmptyDict

\* the values of the run's variables while a single function is under check
RunIdle ==
    /\ SheetIdle
    /\ AppIdle
    /\ pc = "idle"
    /\ listing = << >>
    /\ period = NoPeriod
    /\ excel_files = << >>
    /\ sorted_files = << >>
    /\ file_idx = 0
    /\ sheet_idx = 0
    /\ all_data = EmptyDict
    /\ all_timepoints = {}
    /\ sorted_timepoints = << >>
    /\ result = NoResult
    /\ artifact = NoArtifact
    /\ contributions = << >>

\* a < b for two str values (comparison by code point, a prefix first)
RECURSIVE StrLess(_, _)
StrLess(a, b) ==
    IF Len(b) = 0 THEN FALSE
    ELSE IF Len(a) = 0 THEN TRUE
    ELSE IF Char(a, 1) # Char(b, 1) THEN CharCode(Char(a, 1)) < CharCode(Char(b, 1))
    ELSE StrLess(SubSeq(a, 2, Len(a)), SubSeq(b, 2, Len(b)))

\* the files in descending order of name
RECURSIVE SortFilesDescending(_)
SortFilesDescending(files) ==
    IF Len(files) = 0 THEN << >>
    ELSE LET x == files[Len(files)]
             front == SortFilesDescending(SubSeq(files, 1, Len(files) - 1))
             pos == Cardinality({i \in 1..Len(front) : ~StrLess(front[i].name, x.name)})
         IN  SubSeq(front, 1, pos) \o <<x>> \o SubSeq(front, pos + 1, Len(front))

\* sorted(excel_files): paths of one directory, ascending by file name
RECURSIVE SortFiles(_)
SortFiles(files) ==
    IF Len(files) = 0 THEN << >>
    ELSE LET x == files[Len(files)]
             front == SortFiles(SubSeq(files, 1, Len(files) - 1))
             pos == Cardinality({i \in 1..Len(front) : ~StrLess(x.name, front[i].name)})
         IN  SubSeq(front, 1, pos) \o <<x>> \o SubSeq(front, pos + 1, Len(front))

month_names == <<"jan", "feb", "mar", "apr", "may", "jun", "jul", "aug", "sep", "oct", "nov", "dec">>

\* month_names.get(month, '')
MonthName(month) == IF month \in 1..Len(month_names) THEN month_names[month] ELSE ""

\* file_path.stem: the name without its last suffix (.xlsx)
Stem(name) == SubSeq(name, 1, Len(name) - 5)

\* the file matches one of the selected (month, year) combinations
MatchesPeriod(file, months, years) ==
    LET filename == Lower(Stem(file.name))
    IN  \E y \in 1..Len(years) : \E m \in 1..Len(months) :
            LET year_str == IntToStr(years[y])
                year_short == SubSeq(year_str, Len(year_str) - 1, Len(year_str))
            IN  /\ Contains(filename, MonthName(months[m]))
                /\ (Contains(filename, year_str) \/ Contains(filename, year_short))

IsMatch(file) == MatchesPeriod(file, period.months, period.years)

\* excel_files as lines 516-550 set it for the arguments months and years of p
SelectFilesOf(all_excel_files, p) ==
    IF p.given
    THEN LET filtered_files ==
                 SelectSeq(all_excel_files, LAMBDA file : MatchesPeriod(file, p.months, p.years))
         IN  IF Len(filtered_files) > 0 THEN filtered_files ELSE all_excel_files
    ELSE all_excel_files

\* the matching files alone, be there none
SelectFilesNoFallback(all_excel_files) ==
    IF period.given THEN SelectSeq(all_excel_files, IsMatch) ELSE all_excel_files

\* excel_files as lines 516-550 set it
SelectFiles(all_excel_files) ==
    IF period.given
    THEN LET filtered_files == SelectSeq(all_excel_files, IsMatch)
         IN  IF Len(filtered_files) > 0 THEN filtered_files ELSE all_excel_files
    ELSE all_excel_files

\* the literal taken for the key, the sheet name never filled in
SectionKeyLiteral(table_type, sheet_name) ==
    IF table_type = NoType THEN "Sheet: {sheet_name}" ELSE table_type

\* the section a sheet's data goes to: its type, or Sheet: <sheet name>
SectionKey(table_type, sheet_name) ==
    IF table_type = NoType THEN "Sheet: " \o sheet_name ELSE table_type

\* the row replaced by the new values
ReplaceRow(old, new) == new

\* the values already present kept
KeepFirst(old, new) ==
    [tp \in (DOMAIN old) \cup (DOMAIN new) |-> IF tp \in DOMAIN old THEN old[tp] ELSE new[tp]]

\* all_data[table_type][row_label][tp] = val for every tp, val of the new row
MergeRow(old, new) ==
    [tp \in (DOMAIN old) \cup (DOMAIN new) |-> IF tp \in DOMAIN new THEN new[tp] ELSE old[tp]]

\* all_data[table_type] after the loop over data.items()
MergeSection(old, data) ==
    [row_label \in (DOMAIN old) \cup (DOMAIN data) |->
        IF row_label \notin DOMAIN data THEN old[row_label]
        ELSE MergeRow(IF row_label \in DOMAIN old THEN old[row_label] ELSE EmptyDict,
                      data[row_label])]

\* all_data after the merge of one sheet's data (lines 579-583)
MergeData(all, table_type, data) ==
    [t \in (DOMAIN all) \cup {table_type} |->
        IF t # table_type THEN all[t]
        ELSE MergeSection(IF t \in DOMAIN all THEN all[t] ELSE EmptyDict, data)]

\* the timepoints of one row of the sheet's data alone
DataTimepointsOfOneRow(data) ==
    IF DOMAIN data = {} THEN {} ELSE DOMAIN data[CHOOSE row_label \in DOMAIN data : TRUE]

\* the timepoints of one sheet's data
DataTimepoints(data) == UNION {DOMAIN data[row_label] : row_label \in DOMAIN data}

\* the dataset taken to hold data whatever it holds
HasDataAlways(all) == TRUE

\* if not all_data (line 589), negated
HasData(all) == DOMAIN all # {}

\* the order of table types the sheet starts with (lines 611-630)
table_order ==
    <<"Retail Data Summary", "Inventory Days", "Two Wheeler (2W)", "Two-Wheeler EV OEM",
      "Three Wheeler (3W)", "Three-Wheeler EV OEM", "3W Subcategories",
      "Passenger Vehicle (PV)", "PV EV OEM", "Commercial Vehicle (CV)",
      "Commercial Vehicle EV OEM", "Tractor (TRAC)", "Construction Equipment",
      "Retail Strength Urban", "Retail Strength Rural", "Road Tax Collection",
      "EV Penetration", "Fuel Wise Market Share">>

\* sorted(S) for a set of str
RECURSIVE SortStrings(_)
SortStrings(S) ==
    IF S = {} THEN << >>
    ELSE LET least == CHOOSE x \in S : \A y \in S \ {x} : StrLess(x, y)
         IN  <<least>> \o SortStrings(S \ {least})

\* x.upper() == 'TOTAL' or x.upper() == 'TOTALS'
IsTotal(x) == Upper(x) = "TOTAL" \/ Upper(x) = "TOTALS"

\* the sort key (is total, label) of a is below that of b
RowKeyLess(a, b) ==
    \/ ~IsTotal(a) /\ IsTotal(b)
    \/ IsTotal(a) = IsTotal(b) /\ StrLess(a, b)

\* the labels sorted as plain strings, the totals among them
SortRowLabelsPlain(S) == SortStrings(S)

\* sorted(table_data.keys(), key=...): the totals last
RECURSIVE SortRowLabels(_)
SortRowLabels(S) ==
    IF S = {} THEN << >>
    ELSE LET least == CHOOSE x \in S : \A y \in S \ {x} : RowKeyLess(x, y)
         IN  <<least>> \o SortRowLabels(S \ {least})

\* every table type in sorted order, the curated list left aside
SectionOrderSorted(all) == SortStrings(DOMAIN all)

\* the table types in the order the two loops write them (lines 635, 665)
SectionOrder(all) ==
    LET Present(table_type) == table_type \in DOMAIN all
        written_tables == {table_order[i] : i \in 1..Len(table_order)} \cap DOMAIN all
    IN  SelectSeq(table_order, Present) \o SortStrings((DOMAIN all) \ written_tables)

\* one written row of the sheet: its column-A text and the cells right of it
SectionRow(table_type) == [kind |-> "section", text |-> table_type, cells |-> << >>]
HeaderRow(tps) == [kind |-> "header", text |-> "Item", cells |-> [i \in 1..Len(tps) |-> Str(tps[i])]]
DataRow(label, values, tps) ==
    [kind |-> "data", text |-> label,
     cells |-> [i \in 1..Len(tps) |-> IF tps[i] \in DOMAIN values THEN IntCell(values[tps[i]]) ELSE NaN]]
BlankRow == [kind |-> "blank", text |-> "", cells |-> << >>]

\* the rows of one section: title, column headers, data rows, a blank row
RenderSection(table_type, table_data, tps) ==
    LET row_labels == SortRowLabels(DOMAIN table_data)
    IN  <<SectionRow(table_type), HeaderRow(tps)>>
        \o [i \in 1..Len(row_labels) |-> DataRow(row_labels[i], table_data[row_labels[i]], tps)]
        \o <<BlankRow>>

RECURSIVE RenderSections(_, _, _)
RenderSections(order, all, tps) ==
    IF Len(order) = 0 THEN << >>
    ELSE RenderSection(order[1], all[order[1]], tps)
         \o RenderSections(SubSeq(order, 2, Len(order)), all, tps)

\* the rows of the sheet Master Data (lines 608-693)
RenderSheet(all, tps) == RenderSections(SectionOrder(all), all, tps)

\* the widths set at lines 696-698 for n timepoint columns, by column number
\* (A is 1): columns after Z are written to column A
ColumnWidths(n) ==
    [c \in 1..(IF n + 1 > 26 THEN 26 ELSE n + 1) |->
        IF c = 1 THEN (IF n + 1 > 26 THEN 12 ELSE 45) ELSE 12]

\* Master_FADA_Data_<min>_<max>.xlsx when months and years are given and not
\* empty, Master_FADA_Data.xlsx otherwise
OutputFilenameOf(p) ==
    IF p.given /\ Len(p.months) > 0 /\ Len(p.years) > 0
    THEN LET ys == {p.years[i] : i \in 1..Len(p.years)}
             lo == CHOOSE y \in ys : \A z \in ys : y <= z
             hi == CHOOSE y \in ys : \A z \in ys : y >= z
         IN  "Master_FADA_Data_" \o IntToStr(lo) \o "_" \o IntToStr(hi) \o ".xlsx"
    ELSE "Master_FADA_Data.xlsx"

OutputFilename == OutputFilenameOf(period)

(***************************************************************************)
(* The files on disk.  A workbook is readable or not (pd.ExcelFile raises  *)
(* on it) and holds sheets in workbook order.                              *)
(***************************************************************************)
HeaderFyJan == <<Str("OEM"), Str("FY'23"), Str("Jan'24")>>
HeaderJanFeb == <<Str("OEM"), Str("Jan'24"), Str("Feb'24")>>

GridA == <<HeaderFyJan, <<Str("2W"), Str("1000"), Str("200")>>>>
GridB == <<HeaderJanFeb, <<Str("2W"), Str("250"), Str("300")>>>>
GridBlank == <<HeaderJanFeb, <<Str("2W"), NaN, Str("320")>>>>
GridCase ==
    <<HeaderJanFeb,
      <<Str("2w"), NaN, Str("310")>>,
      <<Str("Hero  Moto"), IntCell(5), NaN>>,
      <<Str("Hero Moto"), IntCell(6), NaN>>,
      <<Str("TOTAL"), Str("N/A"), NaN>>>>
GridTractor ==
    <<<<Str("Tractor OEM"), NaN, NaN>>, HeaderFyJan, <<Str("Hero Moto"), IntCell(7), FloatCell(85)>>>>
GridInf == <<HeaderFyJan, <<Str("2W"), InfCell(1), Str("9")>>>>
GridEmpty == <<HeaderFyJan, <<Str("TOTAL"), Str("N/A"), NaN>>>>
GridTiny == <<HeaderFyJan>>
GridRetail ==
    <<<<Str("Retail Data"), NaN, NaN>>,
      HeaderFyJan,
      <<Str("TOTAL"), IntCell(9), NaN>>,
      <<Str("PV"), IntCell(4), NaN>>,
      <<Str("Tata"), IntCell(7), NaN>>,
      <<Str("Totals"), NaN, IntCell(3)>>>>
GridInventory == <<<<Str("Inventory Days"), NaN, NaN>>, HeaderJanFeb, <<Str("PV"), IntCell(30), NaN>>>>
GridTies == <<<<Str("OEM"), Str("FY 023"), Str("FY'23")>>, <<Str("2W"), IntCell(1), IntCell(2)>>>>

Sheet(name, df) == [sheet_name |-> name, df |-> df]

Workbooks ==
    << [readable |-> TRUE, sheets |-> <<Sheet("Sheet1", GridA)>>],
       [readable |-> TRUE, sheets |-> <<Sheet("Sheet1", GridB)>>],
       [readable |-> TRUE, sheets |-> <<Sheet("Sheet1", GridBlank), Sheet("Sheet2", GridCase)>>],
       [readable |-> TRUE, sheets |-> <<Sheet("Sheet1", GridTractor), Sheet("Tractor", GridCase)>>],
       [readable |-> TRUE, sheets |-> <<Sheet("Sheet1", GridB), Sheet("Sheet2", GridInf), Sheet("Sheet3", GridA)>>],
       [readable |-> TRUE, sheets |-> <<Sheet("Sheet1", GridTiny), Sheet("Sheet2", GridEmpty)>>],
       [readable |-> FALSE, sheets |-> << >>],
       [readable |-> TRUE, sheets |-> <<Sheet("Sheet1", GridInventory), Sheet("Sheet2", GridRetail),
                                        Sheet("Beta", GridTies)>>] >>

FileNames == {"jan_2024_tables.xlsx", "feb_2024_tables.xlsx", "Jan_2025_tables.xlsx"}

MaxFiles == 2

Periods ==
    {NoPeriod,
     [given |-> TRUE, months |-> <<1>>, years |-> <<2024>>],
     [given |-> TRUE, months |-> <<3, 2>>, years |-> <<2023, 2024>>]}

\* the directory listings: up to MaxFiles files of distinct names, in any order
Listings ==
    UNION {{[i \in 1..Len(names) |-> [name |-> names[i], book |-> books[i]]] :
               books \in [1..Len(names) -> 1..Len(Workbooks)]} :
           names \in UNION {Orders(S) : S \in {T \in SUBSET FileNames : Cardinality(T) <= MaxFiles}}}

\* extract_table_data(df) for every sheet of every workbook on disk, worked out
\* once: SheetExtracts[book][k] is the call's result for sheet k of the book
RECURSIVE ExtractSheetsUpTo(_, _)
ExtractSheetsUpTo(book, k) ==
    IF k = 0 THEN << >>
    ELSE Append(ExtractSheetsUpTo(book, k - 1), extract_table_data(Workbooks[book].sheets[k].df))

RECURSIVE ExtractBooksUpTo(_)
ExtractBooksUpTo(book) ==
    IF book = 0 THEN << >>
    ELSE Append(ExtractBooksUpTo(book - 1), ExtractSheetsUpTo(book, Len(Workbooks[book].sheets)))

SheetExtracts == ExtractBooksUpTo(Len(Workbooks))

Init ==
    /\ op = "idle"
    /\ arg = 0
    /\ ret = 0
    /\ SheetIdle
    /\ AppIdle
    /\ pc = "start"
    /\ listing \in Listings
    /\ period \in Periods
    /\ excel_files = << >>
    /\ sorted_files = << >>
    /\ file_idx = 0
    /\ sheet_idx = 0
    /\ all_data = EmptyDict
    /\ all_timepoints = {}
    /\ sorted_timepoints = << >>
    /\ result = NoResult
    /\ artifact = NoArtifact
    /\ contributions = << >>

\* the loop given up at the first error
AfterErrorAbort(idx) == Len(sorted_files) + 1

\* except Exception: log, continue (lines 585-587): the file after this one
AfterError(idx) == idx + 1

CurrentFile == sorted_files[file_idx]
CurrentBook == Workbooks[CurrentFile.book]

\* lines 509-552: list the directory, return None when it is empty, select
\* the files of the requested periods, sort them
Start ==
    /\ pc = "start"
    /\ IF Len(listing) = 0
       THEN /\ pc' = "done"
            /\ result' = NoData
            /\ UNCHANGED <<excel_files, sorted_files, file_idx>>
       ELSE /\ excel_files' = SelectFiles(listing)
            /\ sorted_files' = SortFiles(SelectFiles(listing))
            /\ file_idx' = 1
            /\ pc' = "file"
            /\ UNCHANGED result
    /\ UNCHANGED <<fnVars, sheetVars, appVars, listing, period, sheet_idx, all_data, all_timepoints,
                   sorted_timepoints, artifact, contributions>>

\* lines 559-563: the next file; when pd.ExcelFile raises, the except clause
\* logs it and the loop goes on with the file after it
OpenFile ==
    /\ pc = "file"
    /\ file_idx <= Len(sorted_files)
    /\ IF CurrentBook.readable
       THEN pc' = "sheet" /\ sheet_idx' = 1 /\ UNCHANGED file_idx
       ELSE file_idx' = AfterError(file_idx) /\ UNCHANGED <<pc, sheet_idx>>
    /\ UNCHANGED <<fnVars, sheetVars, appVars, listing, period, excel_files, sorted_files, all_data,
                   all_timepoints, sorted_timepoints, result, artifact, contributions>>

\* lines 565-587: one sheet of the open file: read it, skip it when it has
\* fewer than two rows, extract it and merge its data; an exception leaves
\* the file
ProcessSheet ==
    /\ pc = "sheet"
    /\ sheet_idx <= Len(CurrentBook.sheets)
    /\ \E sheet \in {CurrentBook.sheets[sheet_idx]} :
       \E extracted \in {SheetExtracts[CurrentFile.book][sheet_idx]} :
       \E table_type \in {SectionKey(extracted.table_type, sheet.sheet_name)} :
           IF Len(sheet.df) < 2
           THEN /\ sheet_idx' = sheet_idx + 1
                /\ UNCHANGED <<pc, file_idx, all_data, all_timepoints, contributions>>
           ELSE IF extracted.raised
           THEN /\ pc' = "file"
                /\ file_idx' = AfterError(file_idx)
                /\ UNCHANGED <<sheet_idx, all_data, all_timepoints, contributions>>
           ELSE IF DOMAIN extracted.data = {}
           THEN /\ sheet_idx' = sheet_idx + 1
                /\ UNCHANGED <<pc, file_idx, all_data, all_timepoints, contributions>>
           ELSE /\ all_data' = MergeData(all_data, table_type, extracted.data)
                /\ all_timepoints' = all_timepoints \cup DataTimepoints(extracted.data)
                /\ contributions' = Append(contributions,
                                           [file |-> CurrentFile.name,
                                            sheet |-> sheet_idx,
                                            sheet_name |-> sheet.sheet_name,
                                            table_type |-> extracted.table_type,
                                            section |-> table_type,
                                            data |-> extracted.data])
                /\ sheet_idx' = sheet_idx + 1
                /\ UNCHANGED <<pc, file_idx>>
    /\ UNCHANGED <<fnVars, sheetVars, appVars, listing, period, excel_files, sorted_files,
                   sorted_timepoints, result, artifact>>

\* the loop over xls.sheet_names is exhausted
EndFile ==
    /\ pc = "sheet"
    /\ sheet_idx > Len(CurrentBook.sheets)
    /\ pc' = "file"
    /\ file_idx' = file_idx + 1
    /\ UNCHANGED <<fnVars, sheetVars, appVars, listing, period, excel_files, sorted_files, sheet_idx, all_data,
                   all_timepoints, sorted_timepoints, result, artifact, contributions>>

\* lines 589-717: after the last file, return None when nothing was merged,
\* else sort the timepoints, write the workbook and return its path
Finish ==
    /\ pc = "file"
    /\ file_idx > Len(sorted_files)
    /\ pc' = "done"
    /\ IF ~HasData(all_data)
       THEN result' = NoData /\ UNCHANGED <<sorted_timepoints, artifact>>
       ELSE \E order \in Orders(all_timepoints) :
            \E tps \in {sort_timepoints_columns(order)} :
                /\ sorted_timepoints' = tps
                /\ artifact' = [name |-> OutputFilename,
                                rows |-> RenderSheet(all_data, tps),
                                widths |-> ColumnWidths(Len(tps))]
                /\ result' = [kind |-> "path", name |-> OutputFilename]
    /\ UNCHANGED <<fnVars, sheetVars, appVars, listing, period, excel_files, sorted_files, file_idx, sheet_idx,
                   all_data, all_timepoints, contributions>>

Next == Start \/ OpenFile \/ ProcessSheet \/ EndFile \/ Finish

Spec == Init /\ [][Next]_vars

(***************************************************************************)
(* Properties of the consolidation.                                        *)
(***************************************************************************)
\* the (section, row, timepoint) triples of a dataset and of one contribution
DatasetTriples(all) ==
    UNION {UNION {{<<t, r, tp>> : tp \in DOMAIN all[t][r]} : r \in DOMAIN all[t]} : t \in DOMAIN all}

ContributionTriples(c) ==
    {tr \in {c.section} \X (DOMAIN c.data) \X DataTimepoints(c.data) : tr[3] \in DOMAIN c.data[tr[2]]}

Holds(all, tr) ==
    tr[1] \in DOMAIN all /\ tr[2] \in DOMAIN all[tr[1]] /\ tr[3] \in DOMAIN all[tr[1]][tr[2]]

\* contribution i was processed before contribution j by the stated order:
\* ascending file name, then workbook order of the sheets
InStatedOrder(ci, cj) ==
    \/ StrLess(ci.file, cj.file)
    \/ ci.file = cj.file /\ ci.sheet < cj.sheet

\* C1: at the end of build_consolidated_master every triple holds the value
\* of the contributor processed last, the contributors being processed in
\* ascending order of file name and in workbook order within a file.
LastContributorWins ==
    pc = "done" =>
        /\ \A i, j \in 1..Len(contributions) :
              i < j => InStatedOrder(contributions[i], contributions[j])
        /\ \A i \in 1..Len(contributions) :
              \A tr \in ContributionTriples(contributions[i]) :
                  (\A j \in (i + 1)..Len(contributions) :
                       tr \notin ContributionTriples(contributions[j]))
                  => /\ Holds(all_data, tr)
                     /\ all_data[tr[1]][tr[2]][tr[3]] = contributions[i].data[tr[2]][tr[3]]

\* two sources gave different values for one triple and the later one stands
LastContributorWitness ==
    /\ pc = "done"
    /\ \E i, j \in 1..Len(contributions) :
          /\ i < j
          /\ contributions[i].file # contributions[j].file
          /\ \E tr \in ContributionTriples(contributions[i]) \cap ContributionTriples(contributions[j]) :
                /\ contributions[i].data[tr[2]][tr[3]] # contributions[j].data[tr[2]][tr[3]]
                /\ all_data[tr[1]][tr[2]][tr[3]] = contributions[j].data[tr[2]][tr[3]]

\* the contribution merged by the step, none when the step merged nothing
MergedNow == IF contributions' # contributions THEN {contributions'[Len(contributions')]} ELSE {}

\* C2: a merge step changes only the triples the merged sheet yields a value
\* for: every other triple keeps its value, no triple is erased, and the
\* triples present afterwards are those present before and those of the
\* merged sheet, so a row's mapping is the union, the later value winning.
MergeTouchesOnlyContributed ==
    [][ /\ \A tr \in DatasetTriples(all_data) :
              /\ Holds(all_data', tr)
              /\ \/ all_data'[tr[1]][tr[2]][tr[3]] = all_data[tr[1]][tr[2]][tr[3]]
                 \/ \E c \in MergedNow : tr \in ContributionTriples(c)
        /\ DatasetTriples(all_data') =
              DatasetTriples(all_data) \cup UNION {ContributionTriples(c) : c \in MergedNow}
      ]_vars

\* file A then file B: FY'23 of A is kept, Jan'24 of B overwrites A's
MergeUnionWitness ==
    /\ pc = "done"
    /\ Len(contributions) = 2
    /\ "Sheet: Sheet1" \in DOMAIN all_data
    /\ "2W" \in DOMAIN all_data["Sheet: Sheet1"]
    /\ all_data["Sheet: Sheet1"]["2W"] = ("FY'23" :> 1000) @@ ("JAN'24" :> 250) @@ ("FEB'24" :> 300)
    /\ sorted_timepoints = <<"FY'23", "JAN'24", "FEB'24">>

\* C3: row identity is the normalized label: no section holds two rows whose
\* labels have one normalized form.
RowsMergedByNormalizedLabel ==
    \A t \in DOMAIN all_data :
        \A r1, r2 \in DOMAIN all_data[t] :
            normalize_name(Str(r1)) = normalize_name(Str(r2)) => r1 = r2

ClassifiedTypes == {TABLE_PATTERNS[k].type : k \in 1..Len(TABLE_PATTERNS)}

\* C9: a sheet that yields data and has no classifier match is stored under
\* a key made of its sheet label: the key is no classified SectionType, its
\* rows are in the dataset under that key, and two such sheets share a key
\* exactly when they share a sheet label.
FallbackSectionBySheetLabel ==
    \A i \in 1..Len(contributions) :
        LET c == contributions[i]
        IN  c.table_type = NoType =>
                /\ c.section \notin ClassifiedTypes
                /\ c.section \in DOMAIN all_data
                /\ DOMAIN c.data \subseteq DOMAIN all_data[c.section]
                /\ \A j \in 1..Len(contributions) :
                      contributions[j].table_type = NoType =>
                          (c.sheet_name = contributions[j].sheet_name
                              <=> c.section = contributions[j].section)

\* unclassified sheets of two labels in one file, and of one label in two files
FallbackSectionWitness ==
    /\ pc = "done"
    /\ \E i, j, k \in 1..Len(contributions) :
          /\ contributions[i].table_type = NoType
          /\ contributions[j].table_type = NoType
          /\ contributions[k].table_type = NoType
          /\ contributions[i].file = contributions[j].file
          /\ contributions[i].section # contributions[j].section
          /\ contributions[i].file # contributions[k].file
          /\ contributions[i].section = contributions[k].section

RemoveAt(q, i) == SubSeq(q, 1, i - 1) \o SubSeq(q, i + 1, Len(q))

\* the sheets of a workbook that are read before an error ends the file
SheetRaises(book, k) == Len(Workbooks[book].sheets[k].df) >= 2 /\ SheetExtracts[book][k].raised

SheetsRead(book) ==
    IF ~Workbooks[book].readable THEN {}
    ELSE {k \in 1..Len(Workbooks[book].sheets) : \A h \in 1..k : ~SheetRaises(book, h)}

\* the sheets of a workbook whose data is merged
SheetsMerged(book) ==
    {k \in SheetsRead(book) : /\ Len(Workbooks[book].sheets[k].df) >= 2
                               /\ HasData(SheetExtracts[book][k].data)}

\* opening the file, or reading one of its sheets, raises
FileFails(file) == SheetsRead(file.book) # 1..Len(Workbooks[file.book].sheets)

\* what sheet k of the file contributes, as the history records it
SheetContribution(file, k) ==
    [file |-> file.name, sheet |-> k,
     sheet_name |-> Workbooks[file.book].sheets[k].sheet_name,
     table_type |-> SheetExtracts[file.book][k].table_type,
     section |-> SectionKey(SheetExtracts[file.book][k].table_type,
                            Workbooks[file.book].sheets[k].sheet_name),
     data |-> SheetExtracts[file.book][k].data]

\* the dataset after the sheets 1..k of a file are merged into all
RECURSIVE MergeSheetsUpTo(_, _, _)
MergeSheetsUpTo(all, file, k) ==
    IF k = 0 THEN all
    ELSE LET before == MergeSheetsUpTo(all, file, k - 1)
         IN  IF k \in SheetsMerged(file.book)
             THEN MergeData(before, SheetContribution(file, k).section, SheetContribution(file, k).data)
             ELSE before

\* the dataset a run over the files, in this order, ends with
RECURSIVE ConsolidateFiles(_)
ConsolidateFiles(files) ==
    IF Len(files) = 0 THEN EmptyDict
    ELSE MergeSheetsUpTo(ConsolidateFiles(SubSeq(files, 1, Len(files) - 1)),
                         files[Len(files)], Len(Workbooks[files[Len(files)].book].sheets))

\* C11: a file whose opening or parsing raises does not end the run: every
\* file after it in sorted order is processed, and each value such a file
\* contributes is in the final dataset as it is in the dataset of the same
\* run without the failing file; a file that cannot be opened leaves the
\* whole dataset as it is without it.
FailingFileSkipped ==
    pc = "done" =>
        \A i \in 1..Len(sorted_files) :
            FileFails(sorted_files[i]) =>
                LET without == ConsolidateFiles(RemoveAt(sorted_files, i))
                IN  /\ \A j \in (i + 1)..Len(sorted_files) :
                          \A k \in SheetsMerged(sorted_files[j].book) :
                              /\ \E n \in 1..Len(contributions) :
                                    contributions[n] = SheetContribution(sorted_files[j], k)
                              /\ \A tr \in ContributionTriples(SheetContribution(sorted_files[j], k)) :
                                    /\ Holds(all_data, tr)
                                    /\ Holds(without, tr)
                                    /\ all_data[tr[1]][tr[2]][tr[3]] = without[tr[1]][tr[2]][tr[3]]
                    /\ ~Workbooks[sorted_files[i].book].readable => all_data = without

\* a file that raises after one of its sheets was merged is followed by a file
\* that contributes a value for a triple of that sheet, and another run has a
\* file that cannot be opened followed by one that contributes
FailingFileWitness ==
    /\ pc = "done"
    /\ Len(sorted_files) = 2
    /\ FileFails(sorted_files[1])
    /\ ~FileFails(sorted_files[2])
    /\ Workbooks[sorted_files[1].book].readable
    /\ \E n, m \in 1..Len(contributions) :
          /\ contributions[n].file = sorted_files[1].name
          /\ contributions[m].file = sorted_files[2].name
          /\ ContributionTriples(contributions[n]) \cap ContributionTriples(contributions[m]) # {}

\* C12: with no source file, or when no sheet of any file yields data so
\* that the dataset has no section, build_consolidated_master returns None,
\* having raised nothing and written no workbook.
NoDataReturnsNone ==
    /\ pc = "done" /\ (Len(listing) = 0 \/ ~HasData(all_data) \/ Len(contributions) = 0)
          => result = NoData /\ artifact = NoArtifact
    /\ Len(contributions) = 0 <=> all_data = EmptyDict
    /\ pc # "done" => result = NoResult /\ artifact = NoArtifact

\* files were listed and read, and none of their sheets yielded data
NoDataWitness ==
    /\ pc = "done"
    /\ Len(sorted_files) = 2
    /\ \E i \in 1..2 : /\ Workbooks[sorted_files[i].book].readable
                       /\ Len(Workbooks[sorted_files[i].book].sheets) > 0
    /\ \E i \in 1..2 : ~Workbooks[sorted_files[i].book].readable
    /\ all_data = EmptyDict
    /\ result = NoData
    /\ artifact = NoArtifact

FilesOf(files) == {files[i] : i \in 1..Len(files)}

\* the listed files whose name matches a requested (month, year) pair
MatchingFiles == {f \in FilesOf(listing) : MatchesPeriod(f, period.months, period.years)}

PeriodFilterMatchWitness ==
    /\ pc = "done"
    /\ period.given
    /\ Len(listing) = 2
    /\ Cardinality(MatchingFiles) = 1
    /\ Len(sorted_files) = 1
    /\ Len(contributions) > 0

\* the section titles of the written sheet, top to bottom
RowsOfKind(kind) == SelectSeq(artifact.rows, LAMBDA row : row.kind = kind)
SectionTitles == [i \in 1..Len(RowsOfKind("section")) |-> RowsOfKind("section")[i].text]

CuratedTypes == {table_order[i] : i \in 1..Len(table_order)}
CuratedIndex(table_type) == CHOOSE i \in 1..Len(table_order) : table_order[i] = table_type

\* C14: in the written sheet every section of the dataset has one title row;
\* the titles are the sections of the curated list in that list's order, then
\* the other sections in ascending order of their key; each title row is
\* followed by a header row, and every header row carries the same timepoints.
SectionsRenderedInOrder ==
    (pc = "done" /\ result # NoData) =>
        LET titles == SectionTitles
            curated == {i \in 1..Len(titles) : titles[i] \in CuratedTypes}
        IN  /\ {titles[i] : i \in 1..Len(titles)} = DOMAIN all_data
            /\ Len(titles) = Cardinality(DOMAIN all_data)
            /\ \A i, j \in 1..Len(titles) :
                  i < j =>
                      \/ i \in curated /\ j \notin curated
                      \/ i \in curated /\ j \in curated
                            /\ CuratedIndex(titles[i]) < CuratedIndex(titles[j])
                      \/ i \notin curated /\ j \notin curated /\ StrLess(titles[i], titles[j])
            /\ \A n \in 1..Len(artifact.rows) :
                  /\ artifact.rows[n].kind = "section" =>
                        n < Len(artifact.rows) /\ artifact.rows[n + 1].kind = "header"
                  /\ artifact.rows[n].kind = "header" =>
                        /\ n > 1 /\ artifact.rows[n - 1].kind = "section"
                        /\ artifact.rows[n].cells =
                              [c \in 1..Len(sorted_timepoints) |-> Str(sorted_timepoints[c])]

\* two curated sections whose curated order is not their sorted order, and two
\* sheet-keyed sections after them
SectionsRenderedWitness ==
    /\ pc = "done"
    /\ Len(SectionTitles) >= 4
    /\ SectionTitles[1] = "Retail Data Summary"
    /\ SectionTitles[2] = "Inventory Days"
    /\ SectionTitles[3] = "Sheet: Beta"
    /\ SectionTitles[4] = "Sheet: Sheet1"

\* the rows a run writes when the directory lists the files in the order
\* files and the timepoint set is iterated in the order order
RowsOfRun(files, order) ==
    RenderSheet(ConsolidateFiles(SortFiles(SelectFiles(files))), sort_timepoints_columns(order))

\* C15: the output of a run is a function of the set of source files: every
\* order of the directory listing and every iteration order of the timepoint
\* set give the rows, and the timepoint columns, this run wrote.
RunsAreDeterministic ==
    (pc = "done" /\ result # NoData) =>
        \A files \in Orders(FilesOf(listing)) :
            \A order \in Orders(all_timepoints) :
                /\ sort_timepoints_columns(order) = sorted_timepoints
                /\ RowsOfRun(files, order) = artifact.rows

\* the grid a contribution was extracted from
ContributionGrid(c) ==
    LET file == CHOOSE f \in FilesOf(sorted_files) : f.name = c.file
    IN  Workbooks[file.book].sheets[c.sheet].df

\* C17: the classifier's text includes the sheet label: a merged sheet whose
\* label holds a pattern of some type, and whose first five rows hold no
\* pattern of any type, is stored under that type and not under a key made of
\* its label.
SheetLabelClassifies ==
    \A n \in 1..Len(contributions) :
        LET c == contributions[n]
            by_rows == identify_table_type(ContributionGrid(c), "")
            by_label == identify_table_type(<< >>, c.sheet_name)
        IN  (by_rows = NoType /\ by_label # NoType) =>
                /\ c.table_type = by_label
                /\ c.section = by_label

\* the grid holds, in a row labelled r and under a header cell that parses to
\* tp, a cell that clean_value turns into the integer v
GridYields(df, r, tp, v) ==
    \E n \in 1..Len(df) : \E j \in 1..Len(df[n]) :
        /\ Strip(CellToStr(df[n][1])) = r
        /\ \E h \in 1..Len(df) : j <= Len(df[h]) /\ CellTimepoint(df[h][j]) = tp
        /\ clean_value(df[n][j]) = Some(v)

\* C21: after each merge step every stored value is an integer that
\* clean_value made from a cell of a merged sheet, in the row of that label
\* and the column of that timepoint (an absent cell is not stored, neither as
\* 0 nor otherwise), and every row of every section holds a value.
StoredValuesAreCleanedCells ==
    /\ \A tr \in DatasetTriples(all_data) :
          LET v == all_data[tr[1]][tr[2]][tr[3]]
          IN  /\ v \in Int
              /\ \E n \in 1..Len(contributions) :
                    /\ contributions[n].section = tr[1]
                    /\ GridYields(ContributionGrid(contributions[n]), tr[2], tr[3], v)
    /\ \A t \in DOMAIN all_data : \A r \in DOMAIN all_data[t] : DOMAIN all_data[t][r] # {}

\* a merged sheet has a row, not passed over, whose timepoint cells are all
\* absent and which is not in the dataset, and a stored row with an absent
\* cell under a timepoint of the sheet that the row does not hold
StoredValuesWitness ==
    \E n \in 1..Len(contributions) :
        LET c == contributions[n]
            df == ContributionGrid(c)
        IN  /\ \E i \in (find_header_row(df) + 1)..Len(df) :
                  /\ ~RowSkipped(df[i])
                  /\ \A j \in 2..Len(df[i]) : clean_value(df[i][j]) = None
                  /\ Strip(CellToStr(df[i][1])) \notin DOMAIN all_data[c.section]
            /\ \E r \in DOMAIN c.data : \E tp \in DataTimepoints(c.data) :
                  /\ r \in DOMAIN all_data[c.section]
                  /\ tp \notin DOMAIN all_data[c.section][r]

\* the timepoints that have a value somewhere in a dataset
DatasetTimepoints(all) == {tr[3] : tr \in DatasetTriples(all)}

\* C22: a file that raises on any of its sheets is skipped as a whole: at
\* the end of the run no contribution comes from such a file, and the dataset
\* and the timepoint set are those of the run over the other files alone.
FailingFileLeavesNothing ==
    pc = "done" =>
        LET others == ConsolidateFiles(SelectSeq(sorted_files, LAMBDA f : ~FileFails(f)))
        IN  /\ \A n \in 1..Len(contributions) :
                  \A i \in 1..Len(sorted_files) :
                      contributions[n].file = sorted_files[i].name => ~FileFails(sorted_files[i])
            /\ all_data = others
            /\ all_timepoints = DatasetTimepoints(others)

\* rows i and j of the written sheet are data rows of one section
SameSectionData(rows, i, j) ==
    /\ i < j
    /\ rows[i].kind = "data"
    /\ rows[j].kind = "data"
    /\ \A k \in i..j : rows[k].kind # "section"

\* C23: in every rendered section the data rows are in ascending order of
\* their labels (the order of Python str), except that the rows whose
\* upper-cased label is TOTAL or TOTALS come after all other rows.
RowsSortedTotalsLast ==
    \A i, j \in 1..Len(artifact.rows) :
        SameSectionData(artifact.rows, i, j) =>
            LET a == artifact.rows[i].text
                b == artifact.rows[j].text
            IN  /\ Upper(a) \in {"TOTAL", "TOTALS"} => Upper(b) \in {"TOTAL", "TOTALS"}
                /\ (Upper(a) \in {"TOTAL", "TOTALS"} <=> Upper(b) \in {"TOTAL", "TOTALS"})
                      => StrLess(a, b)

\* a written section has a total row below a row whose label is above it in
\* string order, and two total rows in string order
RowsSortedWitness ==
    \E i, j, k \in 1..Len(artifact.rows) :
        /\ SameSectionData(artifact.rows, i, j)
        /\ SameSectionData(artifact.rows, j, k)
        /\ artifact.rows[i].text = "Tata"
        /\ artifact.rows[j].text = "TOTAL"
        /\ artifact.rows[k].text = "Totals"
        /\ StrLess("TOTAL", "Tata")

\* C25: after each merge step the timepoint set is the set of the timepoints
\* that have a value in some section of the dataset, and the rendered column
\* axis is that set, each timepoint once, the same in every section's header.
TimepointAxisIsUnion ==
    /\ all_timepoints = DatasetTimepoints(all_data)
    /\ (pc = "done" /\ result # NoData) =>
          /\ {sorted_timepoints[i] : i \in 1..Len(sorted_timepoints)} = DatasetTimepoints(all_data)
          /\ Len(sorted_timepoints) = Cardinality(all_timepoints)
          /\ \A i \in 1..Len(artifact.rows) :
                artifact.rows[i].kind = "header" =>
                    artifact.rows[i].cells = [k \in 1..Len(sorted_timepoints) |-> Str(sorted_timepoints[k])]

\* a written dataset has two sections neither of which has every timepoint
TimepointAxisWitness ==
    /\ pc = "done"
    /\ result # NoData
    /\ \E t, u \in DOMAIN all_data :
          /\ DatasetTimepoints(t :> all_data[t]) \ DatasetTimepoints(u :> all_data[u]) # {}
          /\ DatasetTimepoints(u :> all_data[u]) \ DatasetTimepoints(t :> all_data[t]) # {}

(***************************************************************************)
(* Harness for clean_value.                                                *)
(***************************************************************************)
MaxStrLen == 3
MaxNum == 2

CleanAlphabet == {"1", "0", "-", "+", ",", " ", ".", "N"}

RECURSIVE StringsUpTo(_, _)
StringsUpTo(alphabet, n) ==
    IF n = 0 THEN {""}
    ELSE LET shorter == StringsUpTo(alphabet, n - 1)
         IN  shorter \cup {s \o c : s \in shorter, c \in alphabet}

CleanInputs ==
    {Str(s) : s \in StringsUpTo(CleanAlphabet, MaxStrLen)}
    \cup {Str("1,234"), Str("  -56 "), Str("N/A"), Str("$12"), Str("12.7")}
    \cup {IntCell(n) : n \in (-MaxNum)..MaxNum}
    \cup {FloatCell(n) : n \in {127, -127, 5, -5} \cup ((-10 * MaxNum)..(10 * MaxNum))}
    \cup {InfCell(1), InfCell(-1), NaN}

InitClean ==
    /\ RunIdle
    /\ op = "call"
    /\ arg \in CleanInputs
    /\ ret = None

CallCleanValue ==
    /\ op = "call"
    /\ ret' = clean_value(arg)
    /\ op' = "done"
    /\ UNCHANGED <<arg, runVars, sheetVars, appVars>>

NextClean == CallCleanValue

SpecClean == InitClean /\ [][NextClean]_vars

(***************************************************************************)
(* The reference normalizer of the Value Normalizer's rule, stated apart   *)
(* from clean_value: signs is the set of sign characters it accepts.       *)
(***************************************************************************)
RECURSIVE WithoutSeparators(_)
WithoutSeparators(s) ==
    IF Len(s) = 0 THEN ""
    ELSE LET last == Char(s, Len(s))
             init == WithoutSeparators(SubSeq(s, 1, Len(s) - 1))
         IN  IF last \in {",", " ", "\t", "\n", "\r", "\f"} THEN init ELSE init \o last

Abs(n) == IF n < 0 THEN -n ELSE n

RefNormalize(cell, signs) ==
    IF cell.t = "nan" THEN None
    ELSE IF cell.t = "int" THEN Some(cell.n)
    ELSE IF cell.t = "float"
         THEN Some(CHOOSE q \in (-Abs(cell.n))..Abs(cell.n) :
                      /\ 10 * Abs(q) <= Abs(cell.n)
                      /\ Abs(cell.n) < 10 * (Abs(q) + 1)
                      /\ q * cell.n >= 0)
    ELSE LET r == WithoutSeparators(cell.s)
             signed == Len(r) >= 1 /\ Char(r, 1) \in signs
             digits == IF signed THEN SubSeq(r, 2, Len(r)) ELSE r
         IN  IF Len(digits) >= 1 /\ AllDigits(digits)
             THEN Some((IF signed /\ Char(r, 1) = "-" THEN -1 ELSE 1) * ParseDigits(digits))
             ELSE None

\* C6 as stated: clean_value agrees with the reference normalizer, whose
\* optional sign is a plus or a minus, on every empty, finite-number or string
\* input.
CleanValueAgreesAnySign ==
    (op = "done" /\ arg.t # "inf") => ret = RefNormalize(arg, {"+", "-"})

\* C6 (amended): clean_value agrees with the reference normalizer whose only
\* sign is the minus: empty or missing gives absent, a finite number its
\* truncation toward zero, a string the integer left after removing whitespace
\* and commas when that is an optional minus and digits, absent otherwise (a
\* leading plus gives absent).
CleanValueAgreesMinusSign ==
    (op = "done" /\ arg.t # "inf") => ret = RefNormalize(arg, {"-"})

CleanValueWitness ==
    \/ op = "done" /\ arg = Str("1,234") /\ ret = Some(1234)
    \/ op = "done" /\ arg = FloatCell(-127) /\ ret = Some(-12)

\* C7: clean_value never raises: for every raw cell value, the non-finite
\* numbers included, it returns an integer or absent.
CleanValueNeverRaises ==
    op = "done" => ret.k \in {"int", "none"}

(***************************************************************************)
(* Harness for extract_timepoints_from_header.                             *)
(***************************************************************************)
MaxCols == 2

HeaderCells ==
    {Str("FY'24"), Str("FY24"), Str("FY 2024"), Str("Jan'24"), Str("JANUARY 2024"),
     Str("Feb-24"), Str("FY 123"), Str("fy'23 vs Jan'24"), Str("YoY %"), Str("OEM"),
     Str("FY'24 Total"), Str("May"), IntCell(2024), NaN}

RECURSIVE SeqsUpTo(_, _)
SeqsUpTo(S, n) ==
    IF n = 0 THEN {<< >>}
    ELSE LET shorter == SeqsUpTo(S, n - 1)
         IN  shorter \cup {Append(q, x) : q \in shorter, x \in S}

InitParse ==
    /\ RunIdle
    /\ op = "call"
    /\ arg \in SeqsUpTo(HeaderCells, MaxCols)
    /\ ret = EmptyDict

CallExtractTimepoints ==
    /\ op = "call"
    /\ ret' = extract_timepoints_from_header(arg)
    /\ op' = "done"
    /\ UNCHANGED <<arg, runVars, sheetVars, appVars>>

NextParse == CallExtractTimepoints

SpecParse == InitParse /\ [][NextParse]_vars

FyVariants == {Str("FY'24"), Str("FY24"), Str("FY 2024")}
JanVariants == {Str("Jan'24"), Str("JANUARY 2024")}

\* the header cell at column i (1-based) is one of cells and yields label:
\* label is in the mapping, at this column or at a later one that yields it
\* too, and it is the only label when the header has this one cell
YieldsLabel(cells, label) ==
    \A i \in 1..Len(arg) :
        arg[i] \in cells =>
            /\ label \in DOMAIN ret
            /\ ret[label] >= i - 1
            /\ (Len(arg) = 1 => DOMAIN ret = {label})

\* C5 as stated: the variants of fiscal year 2024 all yield FY'24 and the
\* variants of January 2024 all yield Jan'24, in that capitalisation.
VariantsYieldSpecLabels ==
    op = "done" => YieldsLabel(FyVariants, "FY'24") /\ YieldsLabel(JanVariants, "Jan'24")

\* C5 (amended): the variants of fiscal year 2024 all yield FY'24 and the
\* variants of January 2024 all yield one label, JAN'24, whose month
\* abbreviation is in upper case.
VariantsYieldOneLabel ==
    op = "done" => YieldsLabel(FyVariants, "FY'24") /\ YieldsLabel(JanVariants, "JAN'24")

VariantsWitness ==
    /\ op = "done"
    /\ arg = <<Str("JANUARY 2024"), Str("FY 2024")>>
    /\ ret = ("JAN'24" :> 0) @@ ("FY'24" :> 1)

\* the text of a header cell as the parser tests it
HeaderCellText(cell) == Strip(Upper(CellToStr(cell)))
HasSkipKeyword(cell) == \E skip \in SkipKeywords : Contains(HeaderCellText(cell), skip)

\* C18: the mapping extract_timepoints_from_header returns has each label
\* once, mapped to the index of the right-most header column that yields it;
\* a cell matching both grammars yields its fiscal-year label alone, and a
\* cell holding an exclusion keyword yields no label.
LastColumnWins ==
    op = "done" =>
        LET Yields(i) == DOMAIN extract_timepoints_from_header(<<arg[i]>>)
        IN  /\ DOMAIN ret = UNION {Yields(i) : i \in 1..Len(arg)}
            /\ \A label \in DOMAIN ret :
                  /\ ret[label] \in 0..(Len(arg) - 1)
                  /\ label \in Yields(ret[label] + 1)
                  /\ \A i \in 1..Len(arg) : label \in Yields(i) => i - 1 <= ret[label]
            /\ \A i \in 1..Len(arg) :
                  /\ Cardinality(Yields(i)) <= 1
                  /\ (~IsNa(arg[i]) /\ HasSkipKeyword(arg[i])) => Yields(i) = {}
                  /\ (/\ ~IsNa(arg[i])
                      /\ ~HasSkipKeyword(arg[i])
                      /\ FySearch(HeaderCellText(arg[i])) > 0
                      /\ MonthSearch(HeaderCellText(arg[i])) > 0)
                        => \E label \in Yields(i) : StartsWith(label, "FY'")

\* two different cells yield one label and the second column has it; the
\* other case: a cell of both grammars next to a cell with a keyword
LastColumnWitness ==
    /\ op = "done"
    /\ arg = <<Str("FY'24"), Str("FY 2024")>>
    /\ ret = ("FY'24" :> 1)

BothGrammarsWitness ==
    /\ op = "done"
    /\ arg = <<Str("fy'23 vs Jan'24"), Str("FY'24 Total")>>
    /\ ret = ("FY'23" :> 0)

\* FY'yy, or a month abbreviation, an apostrophe and yy
IsCanonicalLabel(label) ==
    \/ /\ Len(label) = 5
       /\ SubSeq(label, 1, 3) = "FY'"
       /\ AllDigits(SubSeq(label, 4, 5))
    \/ /\ Len(label) = 6
       /\ IsMonthAbbr(SubSeq(label, 1, 3))
       /\ SubSeq(label, 4, 4) = "'"
       /\ AllDigits(SubSeq(label, 5, 6))

\* C19: every label the parser yields is canonical: FY' and exactly two
\* digits, or a three-letter month abbreviation, an apostrophe and exactly
\* two digits, whatever number of digits follows the FY token or the month.
LabelsAreCanonical ==
    op = "done" => \A label \in DOMAIN ret : IsCanonicalLabel(label)

(***************************************************************************)
(* Harness for sort_timepoints_columns.                                    *)
(***************************************************************************)
MaxTimepoints == 4

SortLabels ==
    {"FY'22", "FY'24", "FY'05", "FY'99", "Mar'23", "Jan'24", "JAN'24", "FEB'24", "DEC'23", "JAN'99"}

InitSort ==
    /\ RunIdle
    /\ op = "call"
    /\ arg \in {S \in SUBSET SortLabels : Cardinality(S) <= MaxTimepoints}
    /\ ret = << >>

CallSortTimepoints ==
    /\ op = "call"
    /\ \E order \in Orders(arg) : ret' = sort_timepoints_columns(order)
    /\ op' = "done"
    /\ UNCHANGED <<arg, runVars, sheetVars, appVars>>

NextSort == CallSortTimepoints

SpecSort == InitSort /\ [][NextSort]_vars

\* what a canonical label denotes
LabelIsFy(tp) == SubSeq(tp, 1, 3) = "FY'"
LabelYY(tp) == ParseDigits(SubSeq(tp, Len(tp) - 1, Len(tp)))
LabelMonth(tp) == CHOOSE m \in 1..12 : MonthAbbrs[m] = Upper(SubSeq(tp, 1, 3))
\* the calendar year of a month label, two-digit years read as strptime's %y does
LabelYear(tp) == IF LabelYY(tp) < 69 THEN 2000 + LabelYY(tp) ELSE 1900 + LabelYY(tp)

\* C4: the result is a permutation of the set, every fiscal-year label
\* precedes every month label, fiscal-year labels ascend by the number of
\* their year, and month labels ascend chronologically by (year, month).
SortedTimepointsOrdered ==
    op = "done" =>
        /\ Len(ret) = Cardinality(arg)
        /\ {ret[i] : i \in 1..Len(ret)} = arg
        /\ \A i, j \in 1..Len(ret) :
              i < j =>
                 /\ LabelIsFy(ret[j]) => LabelIsFy(ret[i])
                 /\ (LabelIsFy(ret[i]) /\ LabelIsFy(ret[j])) => LabelYY(ret[i]) <= LabelYY(ret[j])
                 /\ (~LabelIsFy(ret[i]) /\ ~LabelIsFy(ret[j])) =>
                        \/ LabelYear(ret[i]) < LabelYear(ret[j])
                        \/ /\ LabelYear(ret[i]) = LabelYear(ret[j])
                           /\ LabelMonth(ret[i]) <= LabelMonth(ret[j])

SortedTimepointsWitness ==
    /\ op = "done"
    /\ arg = {"Mar'23", "FY'22", "Jan'24", "FY'24"}
    /\ ret = <<"FY'22", "FY'24", "Mar'23", "Jan'24">>

(***************************************************************************)
(* Harness for extract_table_data.                                         *)
(***************************************************************************)
MaxRows == 2

ExtractHeader == <<Str("OEM"), Str("FY'23"), Str("Jan'24")>>
ExtractTitles == {<< >>, <<<<Str("Retail figures"), NaN, NaN>>>>}
ExtractLabels ==
    {Str("Hero"), Str(" Hero"), Str("\tHero"), Str("1. Model B"), Str("2 Wheeler"), Str("TOTAL")}
ExtractValues ==
    {<<Str("10"), IntCell(7)>>, <<Str("N/A"), NaN>>, <<NaN, FloatCell(47)>>}
ExtractRowChoices == {<<l>> \o v : l \in ExtractLabels, v \in ExtractValues}

InitExtract ==
    /\ RunIdle
    /\ op = "call"
    /\ arg \in {t \o <<ExtractHeader>> \o rows :
                   t \in ExtractTitles, rows \in SeqsUpTo(ExtractRowChoices, MaxRows)}
    /\ ret = [raised |-> FALSE, table_type |-> NoType, data |-> EmptyDict]

CallExtractTableData ==
    /\ op = "call"
    /\ ret' = extract_table_data(arg)
    /\ op' = "done"
    /\ UNCHANGED <<arg, runVars, sheetVars, appVars>>

NextExtract == CallExtractTableData

SpecExtract == InitExtract /\ [][NextExtract]_vars

\* the text begins with a space or a tab, or with digits, a dot and whitespace
BeginsAsSubItem(text) ==
    \/ Len(text) >= 1 /\ Char(text, 1) \in {" ", "\t"}
    \/ \E k \in 1..Len(text) :
          /\ \A m \in 1..k : Char(text, m) \in DigitClass
          /\ k + 2 <= Len(text)
          /\ Char(text, k + 1) = "."
          /\ Char(text, k + 2) \in SpaceClass


\* row numbers of the grid after its header row
RowsAfterHeader(df) ==
    LET header_row == find_header_row(df)
    IN  IF header_row = 0 THEN {} ELSE (header_row + 1)..Len(df)

BeginsWithDigitsSpace(text) ==
    \E k \in 1..Len(text) :
        /\ \A m \in 1..k : Char(text, m) \in DigitClass
        /\ k + 1 <= Len(text)
        /\ Char(text, k + 1) \in SpaceClass

\* C20: the numbered-list exclusion needs the dot: a row whose label begins
\* with digits followed directly by whitespace, is not indented, holds no
\* structural-header keyword and carries at least one integer value is in the
\* output of extract_table_data.
DigitsWithoutDotKept ==
    (op = "done" /\ ~ret.raised) =>
        \A i \in RowsAfterHeader(arg) :
            LET timepoints == extract_timepoints_from_header(arg[find_header_row(arg)])
            IN  (/\ arg[i][1].t = "str"
                 /\ BeginsWithDigitsSpace(arg[i][1].s)
                 /\ \A skip \in HeaderLikeKeywords : ~Contains(normalize_name(arg[i][1]), skip)
                 /\ DOMAIN RowData(arg[i], timepoints) # {})
                    => Strip(arg[i][1].s) \in DOMAIN ret.data

(***************************************************************************)
(* Harness for identify_table_type.                                        *)
(***************************************************************************)
MaxPadRows == 5
MaxTextRows == 2

PadRow == <<Str("x")>>
ClassifyRows ==
    {<<Str("Inventory Days")>>, <<Str("Tractor OEM")>>, <<Str("Category")>>,
     <<Str("Retail Strength")>>, <<Str("Rural RTO")>>, <<Str("Hero")>>,
     <<Str("PV"), Str("EV")>>, <<Str("2W"), NaN, Str("OEM")>>}
ClassifySheetNames == {"", "Sheet1", "Fuel Type"}

InitClassify ==
    /\ RunIdle
    /\ op = "call"
    /\ arg \in {[df |-> [i \in 1..k |-> PadRow] \o rows, sheet_name |-> n] :
                   k \in 0..MaxPadRows,
                   rows \in SeqsUpTo(ClassifyRows, MaxTextRows),
                   n \in ClassifySheetNames}
    /\ ret = NoType

CallIdentifyTableType ==
    /\ op = "call"
    /\ ret' = identify_table_type(arg.df, arg.sheet_name)
    /\ op' = "done"
    /\ UNCHANGED <<arg, runVars, sheetVars, appVars>>

NextClassify == CallIdentifyTableType

SpecClassify == InitClassify /\ [][NextClassify]_vars

\* the entries of TABLE_PATTERNS with a pattern occurring in the corpus
MatchingEntries(corpus) ==
    {k \in 1..Len(TABLE_PATTERNS) :
        \E i \in 1..Len(TABLE_PATTERNS[k].patterns) :
            Contains(corpus, TABLE_PATTERNS[k].patterns[i])}

\* C10: identify_table_type returns the first SectionType in declaration
\* order with a pattern occurring in the case-folded corpus, wherever the
\* patterns sit in it, and none when no pattern occurs.
FirstDeclaredTypeWins ==
    op = "done" =>
        LET corpus == SearchText(arg.df, arg.sheet_name, Min(5, Len(arg.df)))
            matching == MatchingEntries(corpus)
        IN  IF matching = {} THEN ret = NoType
            ELSE \E k \in matching :
                    /\ \A m \in matching : k <= m
                    /\ ret = TABLE_PATTERNS[k].type

\* Inventory Days stands first in the corpus, Tractor is declared first
FirstDeclaredTypeWitness ==
    /\ op = "done"
    /\ arg.df = <<<<Str("Inventory Days")>>, <<Str("Tractor OEM")>>>>
    /\ ret = "Tractor (TRAC)"

(***************************************************************************)
(* Harness for the column widths (lines 695-698): the loop over the        *)
(* timepoint columns, one assignment a step, for arg timepoints.  A column *)
(* is named by its number (A is 1); ret holds col_idx and the widths set.  *)
(***************************************************************************)
MaxWidthCols == 27

\* chr(64 + col_idx) if col_idx <= 26 else 'A', as a column number
WidthColumn(col_idx) == IF col_idx <= 26 THEN col_idx ELSE 1

InitWidths ==
    /\ RunIdle
    /\ op = "start"
    /\ arg \in 0..MaxWidthCols
    /\ ret = 0

\* ws.column_dimensions['A'].width = 45
SetLabelWidth ==
    /\ op = "start"
    /\ op' = "loop"
    /\ ret' = [col_idx |-> 2, width |-> (1 :> 45)]
    /\ UNCHANGED <<arg, runVars, sheetVars, appVars>>

\* one pass of for col_idx in range(2, len(sorted_timepoints) + 2)
SetTimepointWidth ==
    /\ op = "loop"
    /\ ret.col_idx < arg + 2
    /\ ret' = [col_idx |-> ret.col_idx + 1,
               width |-> (WidthColumn(ret.col_idx) :> 12) @@ ret.width]
    /\ UNCHANGED <<op, arg, runVars, sheetVars, appVars>>

\* the range is exhausted
WidthsSet ==
    /\ op = "loop"
    /\ ret.col_idx >= arg + 2
    /\ op' = "done"
    /\ UNCHANGED <<arg, ret, runVars, sheetVars, appVars>>

NextWidths == SetLabelWidth \/ SetTimepointWidth \/ WidthsSet

SpecWidths == InitWidths /\ [][NextWidths]_vars

\* C24: for any number of timepoints, column A has the width 45 from its
\* assignment on, and once the loop has ended every timepoint column (the
\* columns 2 to the number of timepoints plus 1) has the width 12.
WidthsKeepLabelColumn ==
    /\ op \in {"loop", "done"} => ret.width[1] = 45
    /\ op = "done" =>
          \A c \in 2..(arg + 1) : c \in DOMAIN ret.width /\ ret.width[c] = 12

(***************************************************************************)
(* GoogleSheetsHandler (src/utils/google_sheets_handler.py): the mirror of  *)
(* the dataset in a cloud worksheet.  A worksheet is the function from the  *)
(* (row, column) of every cell that holds a value to that value.            *)
(***************************************************************************)
\* the API returns every value as text
SheetText(cell) == IF cell.t = "int" THEN IntToStr(cell.n) ELSE cell.s

MaxOf(S) == IF S = {} THEN 0 ELSE CHOOSE x \in S : \A y \in S : y <= x

\* worksheet.row_values(r): the row up to its last value, '' for an empty cell
row_values(ws, r) ==
    [c \in 1..MaxOf({cell[2] : cell \in {x \in DOMAIN ws : x[1] = r}}) |->
        IF <<r, c>> \in DOMAIN ws THEN SheetText(ws[<<r, c>>]) ELSE ""]

\* worksheet.col_values(c)
col_values(ws, c) ==
    [r \in 1..MaxOf({cell[1] : cell \in {x \in DOMAIN ws : x[2] = c}}) |->
        IF <<r, c>> \in DOMAIN ws THEN SheetText(ws[<<r, c>>]) ELSE ""]

\* [v for v in values[1:] if v]
NonEmptyTail(values) == SelectSeq(SubSeq(values, 2, Len(values)), LAMBDA v : v # "")

\* what get_sheet_metadata returns when a read raises, or the header row is empty
EmptyMetadata ==
    [is_empty |-> TRUE, existing_timepoints |-> << >>, existing_row_labels |-> << >>,
     total_rows |-> 0, total_cols |-> 0]

get_sheet_metadata(ws, read_ok) ==
    LET header_row == row_values(ws, 1)
        col_a == col_values(ws, 1)
        timepoints == NonEmptyTail(header_row)
        row_labels == NonEmptyTail(col_a)
    IN  IF ~read_ok \/ Len(header_row) = 0 THEN EmptyMetadata
        ELSE [is_empty |-> Len(timepoints) = 0 /\ Len(row_labels) = 0,
              existing_timepoints |-> timepoints,
              existing_row_labels |-> row_labels,
              total_rows |-> Len(col_a),
              total_cols |-> Len(header_row)]

SeqToSet(q) == {q[i] : i \in 1..Len(q)}

\* keys is new_data.keys(), the dict's order
detect_new_data(keys, new_timepoints, metadata) ==
    [new_columns |-> SelectSeq(new_timepoints,
                               LAMBDA tp : tp \notin SeqToSet(metadata.existing_timepoints)),
     new_rows |-> SelectSeq(keys, LAMBDA label : label \notin SeqToSet(metadata.existing_row_labels))]

\* the rectangle write_full_data sends to A1 after worksheet.clear(): the
\* cells of the rectangle that get a value ('' leaves a cell empty)
write_full_data(data, timepoints) ==
    LET sorted_labels == SortRowLabels(DOMAIN data)
        cells == {<<1, c>> : c \in 1..(Len(timepoints) + 1)}
                 \cup {<<r + 1, 1>> : r \in 1..Len(sorted_labels)}
                 \cup {cell \in (2..(Len(sorted_labels) + 1)) \X (2..(Len(timepoints) + 1)) :
                          timepoints[cell[2] - 1] \in DOMAIN data[sorted_labels[cell[1] - 1]]}
    IN  [cell \in cells |->
            IF cell[1] = 1
            THEN (IF cell[2] = 1 THEN Str("Item") ELSE Str(timepoints[cell[2] - 1]))
            ELSE IF cell[2] = 1 THEN Str(sorted_labels[cell[1] - 1])
            ELSE IntCell(data[sorted_labels[cell[1] - 1]][timepoints[cell[2] - 1]])]

\* the first column written from the second column on
StartColumnSecond(metadata) == 2

\* start_col = metadata['total_cols'] + 1
StartColumn(metadata) == metadata.total_cols + 1

\* batch_updates of append_incremental, as the function cell -> value
append_incremental(new_data, delta, metadata) ==
    LET new_columns == delta.new_columns
        new_rows == delta.new_rows
        start_col == StartColumn(metadata)
        existing_rows == metadata.existing_row_labels
        start_row == metadata.total_rows + 1
        all_cols == metadata.existing_timepoints \o new_columns
        headers == [cell \in {<<1, start_col + i - 1>> : i \in 1..Len(new_columns)} |->
                       Str(new_columns[cell[2] - start_col + 1])]
        old_cells == {cell \in (2..(Len(existing_rows) + 1))
                               \X (start_col..(start_col + Len(new_columns) - 1)) :
                         /\ existing_rows[cell[1] - 1] \in DOMAIN new_data
                         /\ new_columns[cell[2] - start_col + 1]
                               \in DOMAIN new_data[existing_rows[cell[1] - 1]]}
        old_values == [cell \in old_cells |->
                          IntCell(new_data[existing_rows[cell[1] - 1]]
                                          [new_columns[cell[2] - start_col + 1]])]
        new_labels == [cell \in {<<start_row + i - 1, 1>> : i \in 1..Len(new_rows)} |->
                          Str(new_rows[cell[1] - start_row + 1])]
        new_cells == {cell \in (start_row..(start_row + Len(new_rows) - 1))
                               \X (2..(Len(all_cols) + 1)) :
                         all_cols[cell[2] - 1] \in DOMAIN new_data[new_rows[cell[1] - start_row + 1]]}
        new_values == [cell \in new_cells |->
                          IntCell(new_data[new_rows[cell[1] - start_row + 1]][all_cols[cell[2] - 1]])]
    IN  new_values @@ new_labels @@ old_values @@ headers

\* sync_data(data, timepoints); keys is the order of data's keys, connected
\* whether connect() succeeds, read_ok whether the reads of the metadata do
sync_data(data, keys, timepoints, connected, read_ok) ==
    LET metadata == get_sheet_metadata(worksheet, read_ok)
        delta == detect_new_data(keys, timepoints, metadata)
        full == write_full_data(data, timepoints)
        updates == append_incremental(data, delta, metadata)
        call == [calls |-> synced.calls + 1, connected |-> connected, before |-> worksheet,
                 data |-> data, timepoints |-> timepoints, written |-> {}, ret |-> TRUE]
    IN  IF ~connected
        THEN /\ synced' = [call EXCEPT !.ret = FALSE]
             /\ UNCHANGED worksheet
        ELSE IF metadata.is_empty
        THEN /\ worksheet' = full
             /\ synced' = [call EXCEPT !.written =
                              (DOMAIN worksheet)
                              \cup ((1..(Cardinality(DOMAIN data) + 1)) \X (1..(Len(timepoints) + 1)))]
        ELSE /\ worksheet' = updates @@ worksheet
             /\ synced' = [call EXCEPT !.written = DOMAIN updates]

(***************************************************************************)
(* Harness for sync_data: up to MaxSyncs calls on the worksheet connect     *)
(* created, each with a dataset as the consolidation yields them (every row *)
(* has a label and a value) and its timepoints in sorted order.             *)
(***************************************************************************)
MaxSyncs == 2

SyncLabels == {"2W", "PV"}
SyncTimepoints == <<"JAN'24", "FEB'24">>

\* a row with the first timepoint, one with both and another value for the
\* first, one with the second alone
SyncRows == {("JAN'24" :> 1), ("JAN'24" :> 2) @@ ("FEB'24" :> 1), ("FEB'24" :> 2)}
SyncDatasets == UNION {[L -> SyncRows] : L \in (SUBSET SyncLabels) \ {{}}}
TimepointsOf(data) ==
    SelectSeq(SyncTimepoints, LAMBDA tp : \E label \in DOMAIN data : tp \in DOMAIN data[label])

InitSync ==
    /\ RunIdle
    /\ op = "idle"
    /\ arg = 0
    /\ ret = 0

CallSyncData ==
    /\ synced.calls < MaxSyncs
    /\ \E data \in SyncDatasets : \E keys \in Orders(DOMAIN data) :
       \E connected \in BOOLEAN : \E read_ok \in BOOLEAN :
           sync_data(data, keys, TimepointsOf(data), connected, read_ok)
    /\ UNCHANGED <<fnVars, runVars, appVars>>

NextSync == CallSyncData

SpecSync == InitSync /\ [][NextSync]_vars

\* the sheet held a value before the last call
SheetWasNotEmpty == synced.calls > 0 /\ synced.connected /\ DOMAIN synced.before # {}

\* C16: when the worksheet is not empty, sync_data writes only to cells right
\* of the header row's last column or below the last row of column A, and
\* every cell that held a value before the call holds that value after it.
SyncNeverRewrites ==
    SheetWasNotEmpty =>
        /\ \A cell \in synced.written :
              \/ cell[2] > Len(row_values(synced.before, 1))
              \/ cell[1] > Len(col_values(synced.before, 1))
        /\ \A cell \in DOMAIN synced.before :
              cell \in DOMAIN worksheet /\ worksheet[cell] = synced.before[cell]

(***************************************************************************)
(* Harness for append_incremental: sync_data's incremental branch (lines   *)
(* 366-380) on a worksheet that already holds values.  The worksheet is    *)
(* one that write_full_data wrote, or one with an empty cell between the   *)
(* labels of column A or between the headers of row 1, as the copy of the  *)
(* master workbook that PipelineRunner.run writes to the worksheet has     *)
(* (an empty row after every section) and as an edit of the sheet leaves.  *)
(***************************************************************************)
SheetOf(rows) ==
    LET cells == {cell \in (1..Len(rows)) \X (1..Len(rows[1])) : rows[cell[1]][cell[2]] # NaN}
    IN  [cell \in cells |-> rows[cell[1]][cell[2]]]

PriorSheets ==
    {SheetOf(<<<<Str("Item"), Str("JAN'24")>>, <<Str("2W"), IntCell(1)>>>>),
     SheetOf(<<<<Str("Item"), Str("JAN'24")>>, <<Str("2W"), IntCell(1)>>, <<Str("PV"), IntCell(2)>>>>),
     SheetOf(<<<<Str("Item"), Str("JAN'24")>>, <<Str("2W"), IntCell(1)>>, <<NaN, NaN>>,
               <<Str("PV"), IntCell(2)>>>>),
     SheetOf(<<<<Str("Item"), NaN, Str("JAN'24")>>, <<Str("2W"), NaN, IntCell(1)>>>>)}

InitAppend ==
    /\ AppIdle
    /\ op = "idle" /\ arg = 0 /\ ret = 0
    /\ pc = "idle"
    /\ listing = << >>
    /\ period = NoPeriod
    /\ excel_files = << >> /\ sorted_files = << >>
    /\ file_idx = 0 /\ sheet_idx = 0
    /\ all_data = EmptyDict /\ all_timepoints = {} /\ sorted_timepoints = << >>
    /\ result = NoResult /\ artifact = NoArtifact /\ contributions = << >>
    /\ worksheet \in PriorSheets
    /\ synced = NoSync

\* sync_data on a connected handler whose metadata read succeeds and finds
\* the sheet not empty: detect_new_data, then append_incremental
CallAppendIncremental ==
    /\ synced.calls < MaxSyncs
    /\ \E data \in SyncDatasets : \E keys \in Orders(DOMAIN data) :
       \E metadata \in {get_sheet_metadata(worksheet, TRUE)} :
       \E delta \in {detect_new_data(keys, TimepointsOf(data), metadata)} :
       \E updates \in {append_incremental(data, delta, metadata)} :
           /\ ~metadata.is_empty
           /\ worksheet' = updates @@ worksheet
           /\ synced' = [calls |-> synced.calls + 1, connected |-> TRUE, before |-> worksheet,
                         data |-> data, timepoints |-> TimepointsOf(data),
                         written |-> DOMAIN updates, ret |-> TRUE]
    /\ UNCHANGED <<fnVars, runVars, appVars>>

NextAppend == CallAppendIncremental

SpecAppend == InitAppend /\ [][NextAppend]_vars

\* the texts of the cells of a sheet's column A below row 1, and of its row 1
\* right of column A
LabelsIn(ws) == {SheetText(ws[cell]) : cell \in {x \in DOMAIN ws : x[2] = 1 /\ x[1] > 1}}
HeadersIn(ws) == {SheetText(ws[cell]) : cell \in {x \in DOMAIN ws : x[1] = 1 /\ x[2] > 1}}

\* the sheet holds value in the row whose column-A cell is label and the
\* column whose header cell is tp
PlacedAt(ws, label, tp, value) ==
    \E cell \in DOMAIN ws :
        /\ cell[1] > 1 /\ cell[2] > 1
        /\ ws[cell] = IntCell(value)
        /\ <<cell[1], 1>> \in DOMAIN ws /\ SheetText(ws[<<cell[1], 1>>]) = label
        /\ <<1, cell[2]>> \in DOMAIN ws /\ SheetText(ws[<<1, cell[2]>>]) = tp

\* C30: after append_incremental every value the new data has for a row
\* label the sheet held and a timepoint it did not hold, and every value of
\* a row label the sheet did not hold, is in the row of that label and the
\* column of that timepoint.
AppendPlacesByIdentity ==
    synced.calls > 0 =>
        \A label \in DOMAIN synced.data : \A tp \in DOMAIN synced.data[label] :
            (label \notin LabelsIn(synced.before) \/ tp \notin HeadersIn(synced.before))
                => PlacedAt(worksheet, label, tp, synced.data[label][tp])

(***************************************************************************)
(* The web layer (src/api/app.py): every /stream request starts a          *)
(* PipelineRunner on a thread of its own; the threads share EXCEL_DIR      *)
(* (listing), OUTPUT_DIR (output_dir) and active_sessions.  A runner's     *)
(* queue is the sequence of the messages it has put on its progress queue. *)
(* The stages outside this module (scraper, downloader, extractor, the     *)
(* Sheets API) end in one of their outcomes, chosen freely.                *)
(***************************************************************************)
MaxRuns == 2
MaxClock == 1
MaxDownloads == 1

Message(kind, text) == [kind |-> kind, text |-> text]
Status(text) == Message("STATUS", text)
Progress(text) == Message("PROGRESS", text)
Error(text) == Message("ERROR", text)
Complete(session_id) == Message("COMPLETE", session_id)

\* session_id = f"multi_{len(months)}m_{len(years)}y_{int(time.time())}"
SessionId(months, years, now) ==
    "multi_" \o IntToStr(Len(months)) \o "m_" \o IntToStr(Len(years)) \o "y_" \o IntToStr(now)

\* PipelineRunner(months, years, session_id, sync_to_sheets) before run;
\* sync is sync_to_sheets and the configuration's enabled flag together
NewRunner(months, years, now, sync) ==
    [pc |-> "start",
     period |-> [given |-> TRUE, months |-> months, years |-> years],
     session_id |-> SessionId(months, years, now),
     sync |-> sync,
     output_file |-> "",
     consolidated |-> EmptyDict,
     queue |-> << >>,
     downloaded |-> EmptyDict]

\* no request for this thread
NoRunner == [NewRunner(<< >>, << >>, 0, FALSE) EXCEPT !.pc = "none"]

\* the selections of the requests, and the directories they may find
AppSelections == {[months |-> <<1>>, years |-> <<2024>>], [months |-> <<2>>, years |-> <<2024>>]}
AppListings ==
    {<< >>,
     <<[name |-> "jan_2024_tables.xlsx", book |-> 1], [name |-> "feb_2024_tables.xlsx", book |-> 2]>>}

AppRunners == {NewRunner(sel.months, sel.years, now, sync) :
                  sel \in AppSelections, now \in 0..MaxClock, sync \in BOOLEAN}

Put(t, messages) == [runners EXCEPT ![t].queue = @ \o messages]
PutAndGo(t, messages, to) == [runners EXCEPT ![t].queue = @ \o messages, ![t].pc = to]

\* lines 515-546: fetch the links, filter them, find the latest period
FetchLinks(t) ==
    /\ runners[t].pc = "start"
    /\ \E outcome \in {"raises", "no_links", "no_latest", "found"} :
          runners' =
              CASE outcome = "raises" ->
                       PutAndGo(t, <<Status("Fetching PDF links")>>, "except")
                [] outcome = "no_links" ->
                       PutAndGo(t, <<Status("Fetching PDF links"), Error("No PDFs found")>>, "returned")
                [] outcome = "no_latest" ->
                       PutAndGo(t, <<Status("Fetching PDF links"),
                                     Error("Could not determine latest available period")>>, "returned")
                [] outcome = "found" ->
                       PutAndGo(t, <<Status("Fetching PDF links"), Status("Found PDFs. Downloading")>>,
                                "download")
    /\ UNCHANGED <<fnVars, runVars, sheetVars, active_sessions, output_dir, cache>>

\* lines 548-558: download_pdfs calls download_progress once for each
\* download that ended, then the run reports the count
DownloadPdfs(t) ==
    /\ runners[t].pc = "download"
    /\ \E n \in 0..MaxDownloads : \E raises \in BOOLEAN :
          LET progress == [i \in 1..n |-> Progress("download")]
          IN  runners' = IF raises THEN PutAndGo(t, progress, "except")
                         ELSE PutAndGo(t, progress \o <<Status("Processing PDFs")>>, "extract")
    /\ UNCHANGED <<fnVars, runVars, sheetVars, active_sessions, output_dir, cache>>

\* lines 560-576: process_all_pdfs for every period of the links
ExtractTables(t) ==
    /\ runners[t].pc = "extract"
    /\ \E raises \in BOOLEAN :
          runners' = IF raises THEN PutAndGo(t, << >>, "except")
                     ELSE PutAndGo(t, <<Progress("process"), Status("Building master Excel")>>, "build")
    /\ UNCHANGED <<fnVars, runVars, sheetVars, active_sessions, output_dir, cache>>

\* the dataset build_consolidated_master(months, years) consolidates from a
\* directory, worked out once for every directory and selection
AppConsolidated ==
    {[listing |-> files,
      period |-> [given |-> TRUE, months |-> sel.months, years |-> sel.years],
      data |-> ConsolidateFiles(SortFiles(SelectFilesOf(
                   files, [given |-> TRUE, months |-> sel.months, years |-> sel.years])))] :
        files \in AppListings, sel \in AppSelections}

ConsolidatedFor(p) == (CHOOSE e \in AppConsolidated : e.listing = listing /\ e.period = p).data

\* lines 578-583 and 661-662: build_consolidated_master saves the workbook
\* under the name made of the selection's years and returns its path, or
\* returns None, or raises (wb.save on a file that is open elsewhere)
BuildMaster(t) ==
    /\ runners[t].pc = "build"
    /\ \E raises \in BOOLEAN : \E data \in {ConsolidatedFor(runners[t].period)} :
          IF raises
          THEN runners' = PutAndGo(t, << >>, "except") /\ UNCHANGED output_dir
          ELSE IF Len(listing) = 0 \/ ~HasData(data)
          THEN /\ runners' = PutAndGo(t, <<Error("Failed to generate consolidated master Excel file")>>,
                                      "returned")
               /\ UNCHANGED output_dir
          ELSE /\ output_dir' = (OutputFilenameOf(runners[t].period) :> data) @@ output_dir
               /\ runners' = [runners EXCEPT ![t].output_file = OutputFilenameOf(runners[t].period),
                                             ![t].consolidated = data,
                                             ![t].pc = "session"]
    /\ UNCHANGED <<fnVars, runVars, sheetVars, active_sessions, cache>>

\* lines 584-592 and 660: the session is stored; without the sync the run
\* reports COMPLETE
StoreSession(t) ==
    /\ runners[t].pc = "session"
    /\ active_sessions' = (runners[t].session_id :> [file |-> runners[t].output_file,
                                                     months |-> runners[t].period.months,
                                                     years |-> runners[t].period.years])
                          @@ active_sessions
    /\ runners' = IF runners[t].sync THEN PutAndGo(t, << >>, "sync")
                  ELSE PutAndGo(t, <<Complete(runners[t].session_id)>>, "returned")
    /\ UNCHANGED <<fnVars, runVars, sheetVars, output_dir, cache>>

\* the messages the sync puts after its first one, in order, when the
\* worksheet exists or is created
SyncMessages(created) ==
    <<Status("Preparing rows"),
      IF created THEN Status("Created new worksheet") ELSE Status("Cleared existing worksheet"),
      Status("Writing rows"),
      Status("Google Sheets sync complete")>>

\* the failure of the sync reported as the run's failure
SyncFailureAsError(session_id) == <<Error("Sheets sync failed")>>

\* except Exception as sheets_error (lines 654-658) and line 660
SyncFailureMessages(session_id) == <<Status("Sheets sync failed"), Complete(session_id)>>

\* lines 594-660: the sync to the cloud sheet; it fails after the first k of
\* its messages, or succeeds; either way the run reports COMPLETE
SyncSheets(t) ==
    /\ runners[t].pc = "sync"
    /\ \E created \in BOOLEAN : \E k \in 0..Len(SyncMessages(created)) :
          runners' =
              IF k < Len(SyncMessages(created))
              THEN PutAndGo(t, <<Status("Syncing to Google Sheets")>>
                               \o SubSeq(SyncMessages(created), 1, k)
                               \o SyncFailureMessages(runners[t].session_id), "returned")
              ELSE PutAndGo(t, <<Status("Syncing to Google Sheets")>> \o SyncMessages(created)
                               \o <<Complete(runners[t].session_id)>>, "returned")
    /\ UNCHANGED <<fnVars, runVars, sheetVars, active_sessions, output_dir, cache>>

\* except Exception as e (lines 664-666)
HandleException(t) ==
    /\ runners[t].pc = "except"
    /\ runners' = PutAndGo(t, <<Error("exception")>>, "returned")
    /\ UNCHANGED <<fnVars, runVars, sheetVars, active_sessions, output_dir, cache>>

\* the run reported COMPLETE with its session id
Completed(t) ==
    /\ runners[t].pc = "returned"
    /\ Len(runners[t].queue) > 0
    /\ runners[t].queue[Len(runners[t].queue)].kind = "COMPLETE"

\* /download?session=<id> (lines 721-740), asked for by the page that got
\* COMPLETE: the file stored for the session, as it is on disk now
DownloadFile(t) ==
    /\ Completed(t)
    /\ runners[t].session_id \in DOMAIN active_sessions
    /\ active_sessions[runners[t].session_id].file \in DOMAIN output_dir
    /\ runners' = [runners EXCEPT ![t].downloaded = output_dir[active_sessions[runners[t].session_id].file],
                                  ![t].pc = "downloaded"]
    /\ UNCHANGED <<fnVars, runVars, sheetVars, active_sessions, output_dir, cache>>

\* the state of the variables the web layer does not use
AppRest ==
    /\ SheetIdle
    /\ op = "idle" /\ arg = 0 /\ ret = 0
    /\ pc = "idle"
    /\ period = NoPeriod
    /\ excel_files = << >> /\ sorted_files = << >>
    /\ file_idx = 0 /\ sheet_idx = 0
    /\ all_data = EmptyDict /\ all_timepoints = {} /\ sorted_timepoints = << >>
    /\ result = NoResult /\ artifact = NoArtifact /\ contributions = << >>
    /\ active_sessions = EmptyDict /\ output_dir = EmptyDict /\ cache = EmptyDict

\* one request
InitRun ==
    /\ AppRest
    /\ listing \in AppListings
    /\ runners \in [{1} -> AppRunners]

NextRun ==
    \E t \in DOMAIN runners :
        \/ FetchLinks(t)
        \/ DownloadPdfs(t)
        \/ ExtractTables(t)
        \/ BuildMaster(t)
        \/ StoreSession(t)
        \/ SyncSheets(t)
        \/ HandleException(t)
        \/ DownloadFile(t)

SpecRun == InitRun /\ [][NextRun]_vars

\* MaxRuns requests at once, in the order of their arrival
InitApp ==
    /\ AppRest
    /\ listing \in AppListings
    /\ runners \in [1..MaxRuns -> AppRunners]

NextApp == NextRun

SpecApp == InitApp /\ [][NextApp]_vars

IsTerminal(message) == message.kind \in {"COMPLETE", "ERROR"}
Terminals(q) == {i \in 1..Len(q) : IsTerminal(q[i])}

\* C26: a run that has returned has put exactly one terminal message
\* (COMPLETE or ERROR), as its last message, and a run that has not returned
\* has put none; when the sync was started the terminal message is COMPLETE,
\* and the warning of a failed sync is followed by COMPLETE at once.
OneTerminalMessage ==
    \A t \in DOMAIN runners :
        LET q == runners[t].queue
        IN  /\ runners[t].pc \in {"returned", "downloaded"} => Terminals(q) = {Len(q)} /\ Len(q) > 0
            /\ runners[t].pc \notin {"returned", "downloaded"} => Terminals(q) = {}
            /\ \A i \in 1..Len(q) :
                  /\ q[i] = Status("Syncing to Google Sheets") => q[Len(q)].kind = "COMPLETE"
                  /\ q[i] = Status("Sheets sync failed") =>
                        i + 1 = Len(q) /\ q[i + 1] = Complete(runners[t].session_id)

\* a run whose sync failed has returned
OneTerminalWitness ==
    \E t \in DOMAIN runners :
        /\ runners[t].pc = "returned"
        /\ \E i \in 1..Len(runners[t].queue) : runners[t].queue[i] = Status("Sheets sync failed")

\* C27: the file a run returned, and the file its session id downloads,
\* holds the dataset that run consolidated, whatever the other runs do.
RunsDoNotInterfere ==
    \A t \in DOMAIN runners :
        /\ runners[t].output_file # "" => output_dir[runners[t].output_file] = runners[t].consolidated
        /\ runners[t].pc = "downloaded" => runners[t].downloaded = runners[t].consolidated


(***************************************************************************)
(* Harness for download_single_pdf (src/downloader/download_pdfs.py): the  *)
(* loop over range(retries), one attempt a step; arg is retries, ret holds *)
(* the attempt number, the outcome of every request made so far, whether   *)
(* the file was written and the tuple returned.                            *)
(***************************************************************************)
MaxRetries == 4

\* what one attempt can come to: the response is written, the response is
\* shorter than 1000 bytes, requests raises Timeout, requests raises another
\* RequestException (raise_for_status included), anything else is raised
\* (mkdir, open, write)
AttemptOutcomes == {"written", "too_small", "timeout", "request_error", "unexpected"}

NoTuple == [success |-> FALSE, error |-> "pending"]
Failure(error) == [success |-> FALSE, error |-> error]
Success == [success |-> TRUE, error |-> "None"]

\* every exception taken for one that is tried again
IsRetriedAlways(outcome) == outcome # "written"

\* the except clauses that sleep and continue (lines 58-68)
IsRetried(outcome) == outcome \in {"timeout", "request_error"}

\* the tuple returned when the attempt is not tried again
AttemptResult(outcome) ==
    CASE outcome = "written" -> Success
      [] outcome = "too_small" -> Failure("File too small, possibly invalid")
      [] outcome = "timeout" -> Failure("Timeout after retries")
      [] outcome = "request_error" -> Failure("request error")
      [] outcome = "unexpected" -> Failure("Unexpected error")

InitDownload ==
    /\ RunIdle
    /\ op = "loop"
    /\ arg \in 0..MaxRetries
    /\ ret = [attempt |-> 0, outcomes |-> << >>, written |-> FALSE, result |-> NoTuple]

\* one pass of for attempt in range(retries) (lines 40-71)
Attempt ==
    /\ op = "loop"
    /\ ret.attempt < arg
    /\ \E outcome \in AttemptOutcomes :
          IF IsRetried(outcome) /\ ret.attempt < arg - 1
          THEN /\ ret' = [ret EXCEPT !.attempt = @ + 1, !.outcomes = Append(@, outcome)]
               /\ UNCHANGED op
          ELSE /\ ret' = [ret EXCEPT !.outcomes = Append(@, outcome),
                                     !.written = (outcome = "written"),
                                     !.result = AttemptResult(outcome)]
               /\ op' = "done"
    /\ UNCHANGED <<arg, runVars, sheetVars, appVars>>

\* the range is exhausted (line 73), which happens when retries is 0
AttemptsExhausted ==
    /\ op = "loop"
    /\ ret.attempt >= arg
    /\ ret' = [ret EXCEPT !.result = Failure("Max retries exceeded")]
    /\ op' = "done"
    /\ UNCHANGED <<arg, runVars, sheetVars, appVars>>

NextDownload == Attempt \/ AttemptsExhausted

SpecDownload == InitDownload /\ [][NextDownload]_vars

\* C28: download_single_pdf makes at most retries requests, goes on to
\* another one only after a timeout or a request error, and only while
\* attempts remain; it can always take a step until it has returned, and it
\* returns a tuple: success only when the last request's response was
\* written, a failure when the last attempt failed or retries is 0.
DownloadEndsWithTuple ==
    LET made == ret.outcomes
    IN  /\ Len(made) <= arg
        /\ \A i \in 1..(Len(made) - 1) : made[i] \in {"timeout", "request_error"}
        /\ op = "loop" => ENABLED NextDownload
        /\ op = "loop" => Len(made) < arg \/ arg = 0
        /\ op = "done" =>
              /\ ret.result # NoTuple
              /\ ret.result.success <=> (Len(made) > 0 /\ made[Len(made)] = "written")
              /\ ret.result.success => ret.written
              /\ arg = 0 => ret.result = Failure("Max retries exceeded") /\ Len(made) = 0

\* the last of three attempts timed out after two that failed
DownloadWitness ==
    /\ op = "done"
    /\ arg = 3
    /\ Len(ret.outcomes) = 3
    /\ ret.outcomes[1] = "timeout"
    /\ ret.outcomes[2] = "request_error"
    /\ ret.result = Failure("Timeout after retries")


(***************************************************************************)
(* ProcessingCache (src/utils/cache.py).  cache is cache['files']: for     *)
(* every file name with an entry, the flags set to True in its entry; the  *)
(* other fields of an entry (times, url, paths, error) decide nothing.     *)
(* The list get_unprocessed_files returns is held as the set of its names. *)
(***************************************************************************)
MaxCacheFiles == 2

CacheFiles == {"f" \o IntToStr(i) \o ".pdf" : i \in 1..MaxCacheFiles}

\* if filename not in self.cache['files']: ... = {}; then update({flag: True})
Mark(files, filename, flag) ==
    (filename :> ((IF filename \in DOMAIN files THEN files[filename] ELSE {}) \cup {flag})) @@ files

mark_downloaded(filename) == cache' = Mark(cache, filename, "downloaded")
mark_processed(filename) == cache' = Mark(cache, filename, "processed")
mark_failed(filename) == cache' = Mark(cache, filename, "failed")

\* info.get('downloaded') and not info.get('processed') and not info.get('failed')
get_unprocessed_files(files) ==
    {filename \in DOMAIN files : /\ "downloaded" \in files[filename]
                                 /\ "processed" \notin files[filename]
                                 /\ "failed" \notin files[filename]}

\* a cache whose file does not exist yet
InitCache ==
    /\ SheetIdle
    /\ op = "idle" /\ arg = 0 /\ ret = {}
    /\ pc = "idle"
    /\ listing = << >>
    /\ period = NoPeriod
    /\ excel_files = << >> /\ sorted_files = << >>
    /\ file_idx = 0 /\ sheet_idx = 0
    /\ all_data = EmptyDict /\ all_timepoints = {} /\ sorted_timepoints = << >>
    /\ result = NoResult /\ artifact = NoArtifact /\ contributions = << >>
    /\ runners = << >> /\ active_sessions = EmptyDict /\ output_dir = EmptyDict
    /\ cache = EmptyDict

CallMarkDownloaded ==
    /\ \E filename \in CacheFiles : mark_downloaded(filename)
    /\ op' = "marked"
    /\ UNCHANGED <<arg, ret, runVars, sheetVars, runners, active_sessions, output_dir>>

CallMarkProcessed ==
    /\ \E filename \in CacheFiles : mark_processed(filename)
    /\ op' = "marked"
    /\ UNCHANGED <<arg, ret, runVars, sheetVars, runners, active_sessions, output_dir>>

CallMarkFailed ==
    /\ \E filename \in CacheFiles : mark_failed(filename)
    /\ op' = "marked"
    /\ UNCHANGED <<arg, ret, runVars, sheetVars, runners, active_sessions, output_dir>>

CallGetUnprocessedFiles ==
    /\ ret' = get_unprocessed_files(cache)
    /\ op' = "returned"
    /\ UNCHANGED <<arg, runVars, sheetVars, appVars>>

NextCache == CallMarkDownloaded \/ CallMarkProcessed \/ CallMarkFailed \/ CallGetUnprocessedFiles

SpecCache == InitCache /\ [][NextCache]_vars

\* C29: after any sequence of mark calls get_unprocessed_files returns
\* exactly the files marked downloaded and not marked processed, a file whose
\* download once failed among them.
UnprocessedAreDownloadedNotProcessed ==
    op = "returned" =>
        ret = {filename \in DOMAIN cache : /\ "downloaded" \in cache[filename]
                                            /\ "processed" \notin cache[filename]}


=============================================================================
